---- MODULE Spec2Model ----
(***************************************************************************)
(* A model of provider-orchard's WebSocket-SSH tunnel layer:               *)
(*   - the duplex stream adapter wsNetConn (package ssh, wsNetConn.Read,   *)
(*     Write, Close),                                                      *)
(*   - the tunnel dialer dialWebSocket (internal/ssh/tunnel.go),           *)
(*   - the session vmSession and the facade operations RunCloudInit and    *)
(*     UploadAndRunScript (internal/ssh/session.go).                       *)
(* The WebSocket library, the SSH library and the SFTP library are the     *)
(* environment: every call into them is a nondeterministic choice over the *)
(* results the call can give.                                              *)
(***************************************************************************)
EXTENDS Integers, Sequences, FiniteSets, TLC

\* ------------------------------------------------------------------ bounds

\* Total number of inbound payload bytes the peer sends on one stream.
MaxBytes == 3
\* Number of inbound WebSocket messages (empty ones included).
MaxMsgs == 2
\* Largest read buffer a caller of wsNetConn.Read passes (len(b)), >= 1.
MaxBuf == 2
\* Number of outbound messages recorded.
MaxOut == 2
\* Number of wsNetConn.Close calls on the stream of the adapter specification.
MaxClose == 2

\* Goroutines calling wsNetConn.Read concurrently.
Readers == {"r1", "r2"}

Nil == "nil"

VARIABLES
    \* ---- duplex stream adapter (wsNetConn) ----
    inbox,      \* inbound messages received by the transport, not yet handed out
    arrived,    \* number of payload bytes that arrived so far; byte i is the number i
    nmsgs,      \* number of messages that arrived so far
    reader,     \* wsNetConn.reader: NoReader, or a reader with the unread remainder
    mu,         \* wsNetConn.mu: "free" or the goroutine holding it
    rpc,        \* position of each Read goroutine: "idle", "locked", "fetch"
    rbuf,       \* len(b) of each goroutine's pending Read
    cur,        \* the Read call inside the critical section: what it saw and did
    lastRead,   \* the last Read call that returned
    delivered,  \* bytes returned by Read calls so far, in return order
    ctxDone,    \* wsNetConn.ctx is cancelled
    dialCtxDone, \* the context the caller gave to the dial is cancelled
    wr,         \* the Write call in flight, if any: its position and len(b)
    wsClosed,   \* the underlying websocket.Conn is closed
    closeCalls, \* number of wsNetConn.Close calls
    outbox,     \* outbound messages written, as payload lengths
    lastWrite,  \* the result of the last Write call
    \* ---- session layer (NewVMSession, vmSession, facade) ----
    call,       \* the operation the caller runs: NewVMSession, RunCloudInit, ...
    spc,        \* where that operation stands
    state,      \* the session's state: None, Dialing, Authenticating, Ready, ...
    callerCfg,  \* the TunnelConfig value the caller holds
    config,     \* the callee's copy of it (vmSession.config once constructed)
    conn,       \* the WebSocket of this session: "none", "open", "closed"
    libCloses,  \* wsNetConn.Close calls made by the SSH library on this stream
    codeCloses, \* wsNetConn.Close calls made by session.go on this stream
    sshClient,  \* vmSession.sshClient: "none", "open", "closed"
    sftpClient, \* vmSession.sftpClient: "unset" (nil), "open", "closed"
    sftpCreated, \* number of SFTP clients created on this session
    dialAttempts, \* websocket.Dial calls
    handshakeAttempts, \* ssh.NewClientConn calls
    lastDial,   \* the last dialWebSocket call: its outcome and its result
    lastHandshake, \* the outcome of the last ssh.NewClientConn call
    returned,   \* what NewVMSession returned
    lastExec,   \* the last ExecuteCommand/ExecuteScript: outcome, result, command
    execCount,  \* number of ExecuteCommand/ExecuteScript calls
    lastUpload, \* the last UploadFile call: options, failing step, result
    uploadCount, \* number of UploadFile calls
    lastClose,  \* the last vmSession.Close call: its steps and its result
    closeCount, \* number of vmSession.Close calls
    events,     \* what the operation did on the session, in order
    pending,    \* the facade's return values, set before the deferred Close
    facadeRet,  \* what the facade operation returned
    remote,     \* the files on the VM
    ops,        \* number of operations the caller ran on the Ready session
    \* ---- a session operation waiting on the network ----
    op,         \* the operation: its name, the context it was given, where it
                \* stands ("idle", "blocked", "returned") and its error
    cancelled,  \* the cancelled ones among the contexts not given to the dial
    opCalls,    \* number of operations called
    \* ---- the functions of a value: text built, defaults, URL ----
    pureIn,     \* the function and the arguments it is called with
    pureOut,    \* the function that returned and what it returned
    \* ---- the deadline setters of the stream ----
    deadlines,  \* the setter calls made: how many, the directions whose
                \* deadline now lies in the past, what the last call returned
    \* ---- several sessions in one process ----
    fleet,      \* the fields of each vmSession and of its wsNetConn
    actor,      \* the last operation: the session it was called on, its name
    \* ---- the VM reconciler (internal/controller/vm) ----
    cr,         \* the VM resource: external name, startup script, the
                \* AtProvider status fields and the Ready condition
    orchard,    \* the VM in Orchard: whether it exists, its status, whether
                \* it has an IP address, whether its SSH server answers
    lastObserve, \* the last Observe: what it was answered, what it did over
                \* SSH, the conditions it set in order, what it returned
    lastDelete, \* the last Delete: whether it called the API, the answer,
                \* what it returned
    attempts,   \* number of UploadAndRunScript calls made for this resource
    runs,       \* number of times the startup script ran to an exit status
    deletes,    \* number of Delete calls
    \* ---- two UploadAndRunScript calls on one VM ----
    tmpScript,  \* the file /tmp/cloudinit-script.sh on the VM: whether it
                \* exists, and its content
    racers      \* each call: the script it was given, where it stands, the
                \* script text its command ran, its error

streamVars == <<inbox, arrived, nmsgs, reader, mu, rpc, rbuf, cur, lastRead,
                delivered, ctxDone, dialCtxDone, wr, wsClosed, closeCalls,
                outbox, lastWrite>>

sessionVars == <<call, spc, state, callerCfg, config, conn, libCloses,
                 codeCloses, sshClient, sftpClient, sftpCreated, dialAttempts,
                 handshakeAttempts, lastDial, lastHandshake, returned, lastExec,
                 execCount, lastUpload, uploadCount, lastClose, closeCount,
                 events, pending, facadeRet, remote, ops>>

opVars == <<op, cancelled, opCalls>>

pureVars == <<pureIn, pureOut>>

deadlineVars == <<deadlines>>

fleetVars == <<fleet, actor>>

reconVars == <<cr, orchard, lastObserve, lastDelete, attempts, runs, deletes>>

raceVars == <<tmpScript, racers>>

vars == <<streamVars, sessionVars, opVars, pureVars, deadlineVars, fleetVars,
          reconVars, raceVars>>

\* ----------------------------------------------------------------- helpers

Min(a, b) == IF a < b THEN a ELSE b

RECURSIVE Flatten(_)
Flatten(ss) == IF ss = <<>> THEN <<>> ELSE Head(ss) \o Flatten(Tail(ss))

IsPrefix(s, t) == Len(s) <= Len(t) /\ SubSeq(t, 1, Len(s)) = s

\* The inbound byte stream: the payloads of all messages in arrival order.
ArrivedSeq == [i \in 1..arrived |-> i]

\* wsNetConn.reader is nil.
NoReader == [set |-> FALSE, rem |-> <<>>]

\* wsNetConn.reader is the reader of a message of which rem is unread.
ReaderOf(rem) == [set |-> TRUE, rem |-> rem]

\* What is still unread in the current message.
Rem == reader.rem

\* ------------------------------------------------- the transport's reader

\* The outcomes of one Read(b) on the io.Reader that websocket.Conn.Reader
\* returned, with `rem` unread and len(b) = n: [n, err, rem].
\*   - a closed connection fails the read;
\*   - so does a cancelled context (the reader works under the context that
\*     was given to c.ws.Reader, line 76, which is c.ctx);
\*   - an exhausted message gives (0, io.EOF);
\*   - otherwise between 1 and min(n, len(rem)) bytes, a short read included.
MsgReadOutcomes(rem, n) ==
    LET failed == {[n |-> 0, err |-> "err", rem |-> rem]}
        eof    == {[n |-> 0, err |-> "EOF", rem |-> rem]}
        data   == {[n |-> k, err |-> Nil, rem |-> SubSeq(rem, k + 1, Len(rem))] :
                     k \in 1..Min(n, Len(rem))}
        live   == IF rem = <<>> THEN eof ELSE data
    IN  IF wsClosed \/ ctxDone THEN failed ELSE live

\* ------------------------------------------------------------ wsNetConn.Read

\* Line 60 as a slip: the kept reader is never looked at.
HasPartialReaderNever(r) == FALSE

\* Line 60: a reader is kept from an earlier call, so it is read first.
HasPartialReader(r) == r.set

\* Lines 71 and 80-81 as a slip: the reader is dropped after every read.
AdvanceDropsReader(o) == NoReader

\* Lines 71 and 80-81: the reader stays in c.reader after a read that did not
\* end the message, with its cursor behind the bytes handed to the caller.
Advance(o) == ReaderOf(o.rem)

\* Return from Read: the deferred Unlock, and the bytes go to the caller.
ReadReturn(p, n, err, bytes, rd) ==
    /\ reader' = rd
    /\ mu' = "free"
    /\ rpc' = [rpc EXCEPT ![p] = "idle"]
    /\ rbuf' = [rbuf EXCEPT ![p] = 1]
    /\ delivered' = delivered \o bytes
    /\ lastRead' = [by |-> p, n |-> n, err |-> err, bytes |-> bytes,
                    hadRem |-> cur.hadRem, fetched |-> cur.fetched]
    /\ cur' = [hadRem |-> FALSE, fetched |-> FALSE]

\* Lines 55-57 as a slip: the call goes on without the mutex.
ReadLockNoMutex(p) ==
    /\ rpc[p] = "idle"
    /\ \E n \in 1..MaxBuf : rbuf' = [rbuf EXCEPT ![p] = n]
    /\ mu' = p
    /\ rpc' = [rpc EXCEPT ![p] = "locked"]
    /\ cur' = [hadRem |-> Rem # <<>>, fetched |-> FALSE]
    /\ UNCHANGED <<inbox, arrived, nmsgs, reader, lastRead, delivered, ctxDone,
                   dialCtxDone, wr, wsClosed, closeCalls, outbox, lastWrite>>

\* Lines 55-57: the call takes the mutex.
ReadLock(p) ==
    /\ rpc[p] = "idle"
    /\ mu = "free"
    /\ \E n \in 1..MaxBuf : rbuf' = [rbuf EXCEPT ![p] = n]
    /\ mu' = p
    /\ rpc' = [rpc EXCEPT ![p] = "locked"]
    /\ cur' = [hadRem |-> Rem # <<>>, fetched |-> FALSE]
    /\ UNCHANGED <<inbox, arrived, nmsgs, reader, lastRead, delivered, ctxDone,
                   dialCtxDone, wr, wsClosed, closeCalls, outbox, lastWrite>>

\* Lines 60-73: read the kept reader first; on io.EOF with nothing read drop it
\* and go on to the next message (line 76, where the call may block).
ReadBuffered(p) ==
    /\ rpc[p] = "locked"
    /\ IF HasPartialReader(reader)
       THEN \E o \in MsgReadOutcomes(reader.rem, rbuf[p]) :
              LET bytes == SubSeq(reader.rem, 1, o.n) IN
              IF o.err = "EOF"
              THEN IF o.n > 0
                   THEN ReadReturn(p, o.n, Nil, bytes, NoReader)
                   ELSE /\ reader' = NoReader
                        /\ rpc' = [rpc EXCEPT ![p] = "fetch"]
                        /\ cur' = [cur EXCEPT !.fetched = TRUE]
                        /\ UNCHANGED <<mu, rbuf, delivered, lastRead>>
              ELSE IF o.err # Nil
              THEN ReadReturn(p, o.n, o.err, bytes, reader)
              ELSE ReadReturn(p, o.n, Nil, bytes, Advance(o))
       ELSE /\ rpc' = [rpc EXCEPT ![p] = "fetch"]
            /\ cur' = [cur EXCEPT !.fetched = TRUE]
            /\ UNCHANGED <<reader, mu, rbuf, delivered, lastRead>>
    /\ UNCHANGED <<inbox, arrived, nmsgs, ctxDone, dialCtxDone, wr, wsClosed,
                   closeCalls, outbox, lastWrite>>

\* Lines 76-79: c.ws.Reader(c.ctx) fails: the connection is closed or the
\* context is cancelled.
ReadFetchFail(p) ==
    /\ rpc[p] = "fetch"
    /\ wsClosed \/ ctxDone
    /\ ReadReturn(p, 0, "err", <<>>, reader)
    /\ UNCHANGED <<inbox, arrived, nmsgs, ctxDone, dialCtxDone, wr, wsClosed,
                   closeCalls, outbox, lastWrite>>

\* Lines 76-81: c.ws.Reader(c.ctx) hands out the next message, which becomes
\* c.reader, and the result of its first Read is returned as it is.
ReadFetch(p) ==
    /\ rpc[p] = "fetch"
    /\ ~wsClosed /\ ~ctxDone
    /\ inbox # <<>>
    /\ inbox' = Tail(inbox)
    /\ \E o \in MsgReadOutcomes(Head(inbox), rbuf[p]) :
         ReadReturn(p, o.n, o.err, SubSeq(Head(inbox), 1, o.n),
                    IF o.err = Nil THEN Advance(o) ELSE ReaderOf(Head(inbox)))
    /\ UNCHANGED <<arrived, nmsgs, ctxDone, dialCtxDone, wr, wsClosed,
                   closeCalls, outbox, lastWrite>>

\* ----------------------------------------------------------- wsNetConn.Write

\* Lines 86-90 as a slip: a buffer longer than one byte goes out as two
\* messages.
WriteResultSplits(len, failed) ==
    IF failed
    THEN [n |-> 0, err |-> "err", sent |-> <<>>]
    ELSE [n |-> len, err |-> Nil,
          sent |-> IF len > 1 THEN <<1, len - 1>> ELSE <<len>>]

\* Lines 86-90: what a Write of len bytes returns and what it put on the
\* wire (the lengths of the messages sent): c.ws.Write sends b as one binary
\* message, and its error gives (0, err), its success (len(b), nil).
WriteResult(len, failed) ==
    IF failed
    THEN [n |-> 0, err |-> "err", sent |-> <<>>]
    ELSE [n |-> len, err |-> Nil, sent |-> <<len>>]

NoWrite == [pc |-> "idle", len |-> 0]

\* Line 85: a goroutine calls Write(b); the call is then in c.ws.Write.
WriteCall ==
    /\ wr.pc = "idle"
    /\ Len(outbox) < MaxOut
    /\ \E n \in 1..MaxBuf : wr' = [pc |-> "writing", len |-> n]
    /\ UNCHANGED <<inbox, arrived, nmsgs, reader, mu, rpc, rbuf, cur, lastRead,
                   delivered, ctxDone, dialCtxDone, wsClosed, closeCalls,
                   outbox, lastWrite>>

\* Lines 86-90: c.ws.Write(c.ctx, ...) returns; it fails on a closed
\* connection and on a cancelled context.
WriteReturn ==
    /\ wr.pc = "writing"
    /\ LET r == WriteResult(wr.len, wsClosed \/ ctxDone) IN
         /\ outbox' = outbox \o r.sent
         /\ lastWrite' = [len |-> wr.len, n |-> r.n, err |-> r.err]
    /\ wr' = NoWrite
    /\ UNCHANGED <<inbox, arrived, nmsgs, reader, mu, rpc, rbuf, cur, lastRead,
                   delivered, ctxDone, dialCtxDone, wsClosed, closeCalls>>

\* ----------------------------------------------------------- wsNetConn.Close

\* Lines 94-97 as a slip: Close takes the read mutex first.
StreamCloseTakesLock ==
    /\ closeCalls < MaxClose
    /\ mu = "free"
    /\ ctxDone' = TRUE
    /\ wsClosed' = TRUE
    /\ closeCalls' = closeCalls + 1
    /\ UNCHANGED <<inbox, arrived, nmsgs, reader, mu, rpc, rbuf, cur, lastRead,
                   delivered, dialCtxDone, wr, outbox, lastWrite>>

\* Lines 94-97: cancel the stream's context, then close the WebSocket. The
\* mutex is not taken, and the caller's context is not touched.
StreamClose ==
    /\ closeCalls < MaxClose
    /\ ctxDone' = TRUE
    /\ wsClosed' = TRUE
    /\ closeCalls' = closeCalls + 1
    /\ UNCHANGED <<inbox, arrived, nmsgs, reader, mu, rpc, rbuf, cur, lastRead,
                   delivered, dialCtxDone, wr, outbox, lastWrite>>

\* Line 44 as a slip: the stream's context is made from a fresh root, not
\* from the caller's.
DerivedDoneDetached(parentDone, own) == own

\* newWSNetConn, line 44: context.WithCancel(ctx): the stream's context is
\* done when its own cancel was called or when its parent is done.
DerivedDone(parentDone, own) == parentDone \/ own

\* The caller cancels the context it gave to the dial (or its deadline
\* passes), before or after the stream was closed.
CancelCallerCtx ==
    /\ ~dialCtxDone
    /\ dialCtxDone' = TRUE
    /\ ctxDone' = DerivedDone(TRUE, ctxDone)
    /\ UNCHANGED <<inbox, arrived, nmsgs, reader, mu, rpc, rbuf, cur, lastRead,
                   delivered, wr, wsClosed, closeCalls, outbox, lastWrite>>

\* ------------------------------------------------------------------ the peer

\* The peer sends one message of k bytes (k = 0: an empty message).
PeerSend ==
    /\ ~wsClosed
    /\ nmsgs < MaxMsgs
    /\ \E k \in 0..(MaxBytes - arrived) :
         /\ inbox' = Append(inbox, [i \in 1..k |-> arrived + i])
         /\ arrived' = arrived + k
    /\ nmsgs' = nmsgs + 1
    /\ UNCHANGED <<reader, mu, rpc, rbuf, cur, lastRead, delivered, ctxDone,
                   dialCtxDone, wr, wsClosed, closeCalls, outbox, lastWrite>>

\* ------------------------------------------------------------ specification

InitStream ==
    /\ inbox = <<>>
    /\ arrived = 0
    /\ nmsgs = 0
    /\ reader = NoReader
    /\ mu = "free"
    /\ rpc = [p \in Readers |-> "idle"]
    /\ rbuf = [p \in Readers |-> 1]
    /\ cur = [hadRem |-> FALSE, fetched |-> FALSE]
    /\ lastRead = [by |-> Nil, n |-> 0, err |-> Nil, bytes |-> <<>>,
                   hadRem |-> FALSE, fetched |-> FALSE]
    /\ delivered = <<>>
    /\ ctxDone = FALSE
    /\ dialCtxDone = FALSE
    /\ wr = NoWrite
    /\ wsClosed = FALSE
    /\ closeCalls = 0
    /\ outbox = <<>>
    /\ lastWrite = [len |-> 0, n |-> 0, err |-> Nil]

\* ====================================================================
\* The session layer: options.go, tunnel.go, session.go
\* ====================================================================

\* ------------------------------------------------------------------ errors

\* An error value: `is` is err != nil, `kinds` the sentinel errors that
\* errors.Is finds in its chain, `text` what the message says.
NilErr == [is |-> FALSE, kinds |-> {}, text |-> ""]
Err(kinds, text) == [is |-> TRUE, kinds |-> kinds, text |-> text]

\* options.go, lines 25-31: the sentinel errors of the package. A chain may
\* also hold "DeadlineExceeded" or "Canceled" (package context) when a cause
\* is wrapped with its chain kept.
Sentinels == {"ErrConnectionFailed", "ErrSSHAuthFailed", "ErrVMNotReady",
              "ErrTimeout", "ErrSFTPFailed"}

\* errors.Wrap(err, msg) of github.com/pkg/errors keeps err's chain.
Wrap(err, msg) == Err(err.kinds, msg)

\* --------------------------------------------------------------- TunnelConfig

DefaultSSHPort == 22
DefaultWaitSeconds == 30
DefaultTimeout == 30

\* OrchardBaseURL as url.Parse sees it: a URL with its scheme, host and
\* path, or a string that does not parse.
ParsedBase(sch, h, pa) == [parses |-> TRUE, scheme |-> sch, host |-> h, path |-> pa]
BadBase == [parses |-> FALSE, scheme |-> "", host |-> "", path |-> ""]

\* The TunnelConfig of the examples: nothing optional set. A VM name is the
\* sequence of its characters.
BaseConfig ==
    [OrchardBaseURL |-> ParsedBase("http", "localhost:6120", "/v1"),
     BearerToken |-> "token", VMName |-> <<"v", "m">>, SSHPort |-> 0,
     WaitSeconds |-> 0, SSHUsername |-> "admin", SSHPassword |-> "admin",
     Timeout |-> 0]

\* Every TunnelConfig over a base URL that url.Parse accepts or not and
\* optional fields unset (0) or set.
AllConfigs ==
    {[BaseConfig EXCEPT !.OrchardBaseURL = b, !.SSHPort = po,
                        !.WaitSeconds = w, !.Timeout = t] :
       b \in {BaseConfig.OrchardBaseURL, BadBase}, po \in {0, 2222},
       w \in {0, 60}, t \in {0, 10}}

\* The configurations the callers of the session layer pass: nothing set,
\* only the wait budget set, only the port set, everything set.
Configs == {c \in AllConfigs :
              \/ c.SSHPort = 0 /\ c.Timeout = 0
              \/ c.SSHPort # 0 /\ c.WaitSeconds # 0 /\ c.Timeout # 0
              \/ c.SSHPort # 0 /\ c.WaitSeconds = 0 /\ c.Timeout = 0}

\* SetDefaults as a slip: the port is set whatever it was.
SetDefaultsClobbersPort(c) ==
    [c EXCEPT !.SSHPort = DefaultSSHPort,
              !.WaitSeconds = IF c.WaitSeconds = 0 THEN DefaultWaitSeconds
                              ELSE c.WaitSeconds,
              !.Timeout = IF c.Timeout = 0 THEN DefaultTimeout ELSE c.Timeout]

\* SetDefaults as a slip: the wait budget is left as it is.
SetDefaultsSkipsWait(c) ==
    [c EXCEPT !.SSHPort = IF c.SSHPort = 0 THEN DefaultSSHPort ELSE c.SSHPort,
              !.Timeout = IF c.Timeout = 0 THEN DefaultTimeout ELSE c.Timeout]

\* TunnelConfig.SetDefaults.
SetDefaults(c) ==
    [c EXCEPT !.SSHPort = IF c.SSHPort = 0 THEN DefaultSSHPort ELSE c.SSHPort,
              !.WaitSeconds = IF c.WaitSeconds = 0 THEN DefaultWaitSeconds
                              ELSE c.WaitSeconds,
              !.Timeout = IF c.Timeout = 0 THEN DefaultTimeout ELSE c.Timeout]

\* url.PathEscape as a slip: the slash is left as it is.
RECURSIVE PathEscapeKeepsSlash(_)
PathEscapeKeepsSlash(name) ==
    IF name = <<>> THEN <<>>
    ELSE (CASE Head(name) = " " -> <<"%", "2", "0">>
            [] Head(name) = "%" -> <<"%", "2", "5">>
            [] OTHER -> <<Head(name)>>)
         \o PathEscapeKeepsSlash(Tail(name))

\* url.PathEscape (tunnel.go line 93) on the characters of the model: a
\* space, a slash and a percent sign become %20, %2F and %25, a letter
\* stays.
RECURSIVE PathEscape(_)
PathEscape(name) ==
    IF name = <<>> THEN <<>>
    ELSE (CASE Head(name) = " " -> <<"%", "2", "0">>
            [] Head(name) = "/" -> <<"%", "2", "F">>
            [] Head(name) = "%" -> <<"%", "2", "5">>
            [] OTHER -> <<Head(name)>>)
         \o PathEscape(Tail(name))

\* The empty string buildWebSocketURL returns with an error (line 78).
NoURL == [scheme |-> "", host |-> "", path |-> <<>>, query |-> <<>>]

\* buildWebSocketURL: an error when the base URL does not parse, else the
\* URL of lines 82-99: its scheme, its host, the pieces of its path in
\* order and its query parameters in order; `port` and `wait` are the
\* parameters it carries (wait 0: the parameter is absent).
BuildWebSocketURL(c) ==
    IF ~c.OrchardBaseURL.parses
    THEN [err |-> Err({}, "invalid Orchard base URL"), url |-> NoURL,
          port |-> 0, wait |-> 0]
    ELSE [err |-> NilErr,
          url |-> [scheme |-> IF c.OrchardBaseURL.scheme = "https" THEN "wss"
                              ELSE "ws",
                   host |-> c.OrchardBaseURL.host,
                   path |-> <<c.OrchardBaseURL.path, "/vms/">>
                            \o PathEscape(c.VMName)
                            \o <<"/port-forward">>,
                   query |-> <<[k |-> "port", v |-> c.SSHPort]>>
                             \o (IF c.WaitSeconds > 0
                                 THEN <<[k |-> "wait", v |-> c.WaitSeconds]>>
                                 ELSE <<>>)],
          port |-> c.SSHPort,
          wait |-> IF c.WaitSeconds > 0 THEN c.WaitSeconds ELSE 0]

\* ------------------------------------------------------------- dialWebSocket

StatusNotFound == 404
StatusServiceUnavailable == 503
StatusBadRequest == 400
StatusOther == 500
\* resp == nil: the dial failed before any HTTP response.
NoResponse == 0

\* What websocket.Dial can give: a connection, or an error with the status
\* of the handshake response (if any) and the underlying cause.
DialOutcomes ==
    {[ok |-> TRUE, status |-> 101, cause |-> "none"]}
    \cup {[ok |-> FALSE, status |-> st, cause |-> "refused"] :
            st \in {StatusNotFound, StatusServiceUnavailable, StatusBadRequest,
                    StatusOther}}
    \cup {[ok |-> FALSE, status |-> NoResponse, cause |-> ca] :
            ca \in {"refused", "deadline", "canceled"}}

\* Lines 52-66 as a slip: 503 is classified like 404.
DialErrorUnavailableAsNotReady(o) ==
    IF o.status \in {StatusNotFound, StatusServiceUnavailable}
    THEN Err({"ErrVMNotReady"}, "VM not found")
    ELSE Err({"ErrConnectionFailed"}, "dial failed")

\* Lines 52-66: the error for a failed websocket.Dial, by the response status.
DialError(o) ==
    IF o.status # NoResponse
    THEN CASE o.status = StatusNotFound ->
                Err({"ErrVMNotReady"}, "VM not found")
           [] o.status = StatusServiceUnavailable ->
                Err({"ErrConnectionFailed"}, "failed to connect to VM worker")
           [] o.status = StatusBadRequest ->
                Err({"ErrConnectionFailed"}, "invalid port specified")
           [] OTHER ->
                Err({"ErrConnectionFailed"}, "WebSocket dial failed with status")
    ELSE Err({"ErrConnectionFailed"}, o.cause)

\* dialWebSocket(ctx, config) with websocket.Dial giving o: whether
\* websocket.Dial was called, whether a stream is returned, and the error.
DialWebSocket(c, o) ==
    LET u == BuildWebSocketURL(c) IN
    IF u.err.is
    THEN [dialed |-> FALSE, conn |-> FALSE,
          err |-> Wrap(u.err, "failed to build WebSocket URL"),
          port |-> u.port, wait |-> u.wait]
    ELSE IF ~o.ok
    THEN [dialed |-> TRUE, conn |-> FALSE, err |-> DialError(o),
          port |-> u.port, wait |-> u.wait]
    ELSE [dialed |-> TRUE, conn |-> TRUE, err |-> NilErr,
          port |-> u.port, wait |-> u.wait]

\* -------------------------------------------------------------- NewVMSession

\* What ssh.NewClientConn can give over the stream: a connection, an
\* authentication failure ("ssh: unable to authenticate ..."), or another
\* failure (the peer hung up, the context's deadline passed).
HandshakeOutcomes ==
    {[ok |-> TRUE, auth |-> FALSE, cause |-> "none"],
     [ok |-> FALSE, auth |-> TRUE, cause |-> "unable to authenticate"],
     [ok |-> FALSE, auth |-> FALSE, cause |-> "EOF"],
     [ok |-> FALSE, auth |-> FALSE, cause |-> "deadline"]}

\* The chain of the error ssh.NewClientConn returns (it wraps its cause).
HandshakeCause(hs) ==
    Err(IF hs.cause = "deadline" THEN {"DeadlineExceeded"} ELSE {}, hs.cause)

\* Lines 86-100 as a slip: the session is returned although the handshake
\* failed.
AfterHandshakeAlwaysSession(hs) ==
    [session |-> TRUE, err |-> NilErr, closes |-> 0]

\* Lines 86-100 as a slip: the stream is not closed on a failed handshake.
AfterHandshakeNoClose(hs) ==
    IF ~hs.ok
    THEN [session |-> FALSE, closes |-> 0,
          err |-> Wrap(HandshakeCause(hs), "failed to establish SSH connection")]
    ELSE [session |-> TRUE, err |-> NilErr, closes |-> 0]

\* Lines 88-91 as a slip: an authentication failure is reported as a
\* connection failure.
AfterHandshakeAuthAsConnection(hs) ==
    IF ~hs.ok
    THEN [session |-> FALSE, closes |-> 1,
          err |-> IF hs.auth
                  THEN Wrap(Err({"ErrConnectionFailed"}, ""), hs.cause)
                  ELSE Wrap(HandshakeCause(hs),
                            "failed to establish SSH connection")]
    ELSE [session |-> TRUE, err |-> NilErr, closes |-> 0]

\* Lines 86-100: after ssh.NewClientConn returned hs: on an error close the
\* stream (`closes` counts the wsConn.Close calls of this code) and return
\* (nil, err), ErrSSHAuthFailed when the text says "unable to authenticate";
\* otherwise return the session.
AfterHandshake(hs) ==
    IF ~hs.ok
    THEN [session |-> FALSE, closes |-> 1,
          err |-> IF hs.auth
                  THEN Wrap(Err({"ErrSSHAuthFailed"}, ""), hs.cause)
                  ELSE Wrap(HandshakeCause(hs),
                            "failed to establish SSH connection")]
    ELSE [session |-> TRUE, err |-> NilErr, closes |-> 0]

\* Line 85: ssh.NewClientConn closes the net.Conn it was given when the
\* handshake fails, before it returns the error.
LibClosesOnHandshake(hs) == IF hs.ok THEN 0 ELSE 1

\* ------------------------------------------- ExecuteCommand, ExecuteScript

ExitCodes == {0, 42}

\* What one execution can meet: NewSession fails; the process runs to an
\* exit status (Run returns nil for 0 and *ssh.ExitError otherwise); or Run
\* fails for another reason (the transport broke, no exit status was sent).
ExecOutcomes ==
    {[open |-> FALSE, exited |-> FALSE, code |-> 0, stdout |-> "", stderr |-> ""]}
    \cup {[open |-> TRUE, exited |-> TRUE, code |-> k, stdout |-> "hello",
           stderr |-> IF k = 0 THEN "" ELSE "boom"] : k \in ExitCodes}
    \cup {[open |-> TRUE, exited |-> FALSE, code |-> 0, stdout |-> "part",
           stderr |-> ""]}

NoResult == [has |-> FALSE, ExitCode |-> 0, Stdout |-> "", Stderr |-> ""]

\* Lines 123-129 as a slip: a non-zero exit is returned as an error.
ExecuteResultExitIsError(what, o) ==
    IF ~o.open
    THEN [result |-> NoResult, err |-> Err({}, "failed to create SSH session")]
    ELSE IF o.exited /\ o.code = 0
    THEN [result |-> [has |-> TRUE, ExitCode |-> 0, Stdout |-> o.stdout,
                      Stderr |-> o.stderr],
          err |-> NilErr]
    ELSE [result |-> [has |-> TRUE, ExitCode |-> 0, Stdout |-> o.stdout,
                      Stderr |-> o.stderr],
          err |-> Err({}, what)]

\* ExecuteCommand lines 105-132 and ExecuteScript lines 137-176: the pair
\* (*CommandResult, error) for outcome o; `what` is the text of the wrap
\* ("command execution failed" or "script execution failed").
ExecuteResult(what, o) ==
    IF ~o.open
    THEN [result |-> NoResult, err |-> Err({}, "failed to create SSH session")]
    ELSE IF o.exited
    THEN [result |-> [has |-> TRUE, ExitCode |-> o.code, Stdout |-> o.stdout,
                      Stderr |-> o.stderr],
          err |-> NilErr]
    ELSE [result |-> [has |-> TRUE, ExitCode |-> 0, Stdout |-> o.stdout,
                      Stderr |-> o.stderr],
          err |-> Err({}, what)]

\* ------------------------------------------------- UploadFile, UploadBytes

\* 0755, the mode UploadAndRunScript asks for.
Perm0755 == 493

ScriptPath == "/tmp/cloudinit-script.sh"
Paths == {ScriptPath, "/tmp/f"}
Scripts == {"s1", "s2"}

\* The SFTP call of one UploadFile that fails ("none": no call fails), among
\* the calls this UploadFile makes.
UploadFailures(sftp, opts) ==
    {"none", "create", "write"}
    \cup (IF sftp = "unset" THEN {"sftp"} ELSE {})
    \cup (IF opts.CreateDirs THEN {"mkdir"} ELSE {})
    \cup (IF opts.Permissions # 0 THEN {"chmod"} ELSE {})

\* ensureSFTP as a slip: a new client is made on every call.
EnsureSFTPAlwaysNew(sftp, fails) ==
    IF fails
    THEN [steps |-> <<"sftp.NewClient">>, sftp |-> sftp, failed |-> TRUE,
          created |-> 0]
    ELSE [steps |-> <<"sftp.NewClient">>, sftp |-> "open", failed |-> FALSE,
          created |-> 1]

\* ensureSFTP, lines 180-191: nothing is done when the field is set;
\* otherwise sftp.NewClient is called, and the field is set only when that
\* succeeded. `created` counts the clients made.
EnsureSFTP(sftp, fails) ==
    IF sftp # "unset"
    THEN [steps |-> <<>>, sftp |-> sftp, failed |-> FALSE, created |-> 0]
    ELSE IF fails
    THEN [steps |-> <<"sftp.NewClient">>, sftp |-> "unset", failed |-> TRUE,
          created |-> 0]
    ELSE [steps |-> <<"sftp.NewClient">>, sftp |-> "open", failed |-> FALSE,
          created |-> 1]

\* Lines 200-224 as a slip: Chmod is issued whatever Permissions is.
UploadStepsAlwaysChmod(opts) ==
    (IF opts.CreateDirs THEN <<"MkdirAll">> ELSE <<>>)
    \o <<"Create", "Copy", "Chmod">>

\* UploadFile lines 200-224: the SFTP calls an upload with options opts
\* makes after ensureSFTP, in order, when none of them fails.
UploadSteps(opts) ==
    (IF opts.CreateDirs THEN <<"MkdirAll">> ELSE <<>>)
    \o <<"Create", "Copy">>
    \o (IF opts.Permissions # 0 THEN <<"Chmod">> ELSE <<>>)

\* The SFTP call a failure is about.
StepOf(failAt) ==
    CASE failAt = "sftp" -> "sftp.NewClient"
      [] failAt = "mkdir" -> "MkdirAll"
      [] failAt = "create" -> "Create"
      [] failAt = "write" -> "Copy"
      [] failAt = "chmod" -> "Chmod"
      [] OTHER -> "none"

\* The error UploadFile returns for a failure at failAt, lines 187, 203,
\* 210, 216 and 222: always a wrap of ErrSFTPFailed; `carries` is what its
\* message holds of the remote path ("path"), of the parent directory
\* ("dir") and of the underlying error ("cause").
UploadError(failAt) ==
    CASE failAt = "sftp" ->
           [err |-> Err({"ErrSFTPFailed"}, "sftp.NewClient"),
            carries |-> {"cause"}]
      [] failAt = "mkdir" ->
           [err |-> Err({"ErrSFTPFailed"}, "failed to create directory"),
            carries |-> {"dir", "cause"}]
      [] failAt = "create" ->
           [err |-> Err({"ErrSFTPFailed"}, "failed to create file"),
            carries |-> {"path", "cause"}]
      [] failAt = "write" ->
           [err |-> Err({"ErrSFTPFailed"}, "failed to write file content"),
            carries |-> {}]
      [] failAt = "chmod" ->
           [err |-> Err({"ErrSFTPFailed"}, "failed to set file permissions"),
            carries |-> {}]
      [] OTHER -> [err |-> NilErr, carries |-> {}]

\* UploadFile lines 195-226 (with ensureSFTP, lines 180-191): the SFTP calls
\* made, in order, when the call named by failAt (if it is made) fails: the
\* first failing call ends the upload; the error returned; the sftpClient
\* field afterwards; and how far the remote file got ("none", "created",
\* "written", "chmod").
UploadFileRun(sftp, opts, failAt) ==
    LET e == EnsureSFTP(sftp, failAt = "sftp")
        plan == UploadSteps(opts)
        at == {i \in 1..Len(plan) : plan[i] = StepOf(failAt)}
        idx == IF at = {} THEN 0 ELSE CHOOSE i \in at : \A k \in at : i <= k
        ran == IF e.failed THEN <<>>
               ELSE IF idx = 0 THEN plan ELSE SubSeq(plan, 1, idx)
        done == IF idx = 0 \/ e.failed THEN ran ELSE SubSeq(ran, 1, idx - 1)
        has(st) == \E i \in 1..Len(done) : done[i] = st
        ue == IF e.failed THEN UploadError("sftp")
              ELSE IF idx # 0 THEN UploadError(failAt)
              ELSE UploadError("none")
    IN  [steps |-> e.steps \o ran,
         err |-> ue.err,
         carries |-> ue.carries,
         sftp |-> e.sftp,
         created |-> e.created,
         file |-> IF has("Chmod") THEN "chmod"
                  ELSE IF has("Copy") THEN "written"
                  ELSE IF has("Create") THEN "created"
                  ELSE "none"]

NoFile == [exists |-> FALSE, content |-> "", perm |-> 0]

\* The remote file after an upload that got as far as `stage`: Create
\* truncates (a new file gets the server's default mode, written 0 here),
\* Copy writes the content, Chmod sets the mode.
FileAfter(f, stage, data, perm) ==
    LET mode == IF f.exists THEN f.perm ELSE 0 IN
    CASE stage = "none" -> f
      [] stage = "created" -> [exists |-> TRUE, content |-> "", perm |-> mode]
      [] stage = "written" -> [exists |-> TRUE, content |-> data, perm |-> mode]
      [] stage = "chmod" -> [exists |-> TRUE, content |-> data, perm |-> perm]

\* ------------------------------------------------------------ vmSession.Close

\* Lines 235-260 as a slip: Close returns at the first failing step.
CloseRunStopsAtError(sftp, ok) ==
    LET s1 == IF sftp # "unset" THEN <<[res |-> "sftp", ok |-> ok.sftp]>> ELSE <<>>
        e1 == sftp # "unset" /\ ~ok.sftp
        s2 == s1 \o <<[res |-> "ssh", ok |-> ok.ssh]>>
        s3 == s2 \o <<[res |-> "ws", ok |-> ok.ws]>>
    IN  IF e1 THEN [steps |-> s1, err |-> Err({}, "errors during close")]
        ELSE IF ~ok.ssh THEN [steps |-> s2, err |-> Err({}, "errors during close")]
        ELSE [steps |-> s3,
              err |-> IF ok.ws THEN NilErr ELSE Err({}, "errors during close")]

\* Lines 238-242 as a slip: the file-transfer client is closed without the
\* nil check.
CloseRunAlwaysSFTP(sftp, ok) ==
    LET s3 == <<[res |-> "sftp", ok |-> sftp # "unset" /\ ok.sftp],
                [res |-> "ssh", ok |-> ok.ssh], [res |-> "ws", ok |-> ok.ws]>>
        errs == {i \in 1..Len(s3) : ~s3[i].ok}
    IN  [steps |-> s3,
         err |-> IF errs # {} THEN Err({}, "errors during close") ELSE NilErr]

\* Lines 235-260: the close steps attempted, in order, each with its result
\* (ok.sftp, ok.ssh, ok.ws: whether that Close call returns nil), and the
\* error returned: non-nil when at least one step failed.
CloseRun(sftp, ok) ==
    LET s1 == IF sftp # "unset" THEN <<[res |-> "sftp", ok |-> ok.sftp]>> ELSE <<>>
        s2 == s1 \o <<[res |-> "ssh", ok |-> ok.ssh]>>
        s3 == s2 \o <<[res |-> "ws", ok |-> ok.ws]>>
        errs == {i \in 1..Len(s3) : ~s3[i].ok}
    IN  [steps |-> s3,
         err |-> IF errs # {} THEN Err({}, "errors during close") ELSE NilErr]

\* Line 245: ssh.Client.Close closes the net.Conn the client was built on.
LibClosesOnClientClose == 1

CloseResults == [sftp : BOOLEAN, ssh : BOOLEAN, ws : BOOLEAN]

\* ------------------------------------------------------------ the facade

Envs == {"none", "E"}

\* RunCloudInit lines 269-271 as a slip: Close is not deferred, and is
\* skipped when ExecuteScript returns an error.
RunCloudInitAfterExecuteLeaks(r) ==
    [close |-> ~r.err.is, result |-> r.result, err |-> r.err]

\* RunCloudInit lines 269-271: Close is deferred, and the pair ExecuteScript
\* gave is returned.
RunCloudInitAfterExecute(r) ==
    [close |-> TRUE, result |-> r.result, err |-> r.err]

\* UploadAndRunScript lines 285-291 as a slip: the upload's error is ignored.
AfterUploadIgnoresError(u) ==
    [exec |-> TRUE, result |-> NoResult, err |-> NilErr]

\* UploadAndRunScript lines 285-291: an upload error ends the call with
\* (nil, "failed to upload script"); otherwise the command is executed.
AfterUpload(u) ==
    IF u.err.is
    THEN [exec |-> FALSE, result |-> NoResult,
          err |-> Wrap(u.err, "failed to upload script")]
    ELSE [exec |-> TRUE, result |-> NoResult, err |-> NilErr]

\* Lines 269 and 281 as a slip: a failing Close replaces what is returned.
AfterDeferredCloseOverrides(p, closeErr) ==
    IF closeErr.is THEN [p EXCEPT !.result = NoResult, !.err = closeErr] ELSE p

\* RunCloudInit line 269 and UploadAndRunScript line 281: `defer
\* session.Close()` drops what Close returns; the pair named in the return
\* statement is returned as it is.
AfterDeferredClose(p, closeErr) == p

\* UploadAndRunScript lines 284-289: where and how the script is uploaded.
ScriptUploadOptions ==
    [RemotePath |-> ScriptPath, Permissions |-> Perm0755, CreateDirs |-> TRUE]

\* UploadAndRunScript lines 294-299: the command line, the exports of env
\* followed by the script's path.
ScriptCommand(env) == [exports |-> env, path |-> ScriptPath]

\* The options a caller of UploadFile passes.
UploadOpts == [RemotePath : Paths, Permissions : {0, 420}, CreateDirs : BOOLEAN]

\* Number of operations a caller runs on a session before closing it.
MaxOps == 2

\* ------------------------------------------------------------ the actions

NoExec == [what |-> "", o |-> [open |-> FALSE, exited |-> FALSE, code |-> 0,
                               stdout |-> "", stderr |-> ""],
           r |-> [result |-> NoResult, err |-> NilErr],
           command |-> [exports |-> "none", path |-> ""], ran |-> ""]
NoUpload == [opts |-> [RemotePath |-> "", Permissions |-> 0, CreateDirs |-> FALSE],
             data |-> "", failAt |-> "none",
             r |-> [steps |-> <<>>, err |-> NilErr, carries |-> {},
                    sftp |-> "unset", created |-> 0, file |-> "none"]]
NoReturn == [done |-> FALSE, session |-> FALSE, err |-> NilErr]
NoFacadeRet == [done |-> FALSE, close |-> FALSE, result |-> NoResult, err |-> NilErr]

Facades == {"RunCloudInit", "UploadAndRunScript"}

\* What a facade operation did on its session is logged in order; an upload
\* is logged with its result.
Log(e) == IF call \in Facades THEN Append(events, e) ELSE events

\* The caller starts NewVMSession, or a facade operation, which starts it
\* (RunCloudInit line 265, UploadAndRunScript line 277). The config is
\* passed by value and defaulted in the callee's copy (NewVMSession line 64).
Start ==
    /\ spc = "idle"
    /\ \E c \in {"NewVMSession"} \cup Facades, cfg \in Configs :
         /\ call' = c
         /\ callerCfg' = cfg
         /\ config' = SetDefaults(cfg)
    /\ state' = "Dialing"
    /\ spc' = "dial"
    /\ UNCHANGED <<conn, libCloses, codeCloses, sshClient, sftpClient,
                   sftpCreated, dialAttempts, handshakeAttempts, lastDial,
                   lastHandshake, returned, lastExec, execCount, lastUpload,
                   uploadCount, lastClose, closeCount, events, pending,
                   facadeRet, remote, ops>>

\* Lines 68-70 and 86-92 as a slip: a failure starts the dial again.
FailOpenRetries(err) ==
    /\ state' = "Dialing"
    /\ spc' = "dial"
    /\ returned' = returned
    /\ facadeRet' = facadeRet

\* How a failing NewVMSession ends the operation: the caller of NewVMSession
\* gets (nil, err), and so does the caller of a facade operation.
FailOpen(err) ==
    /\ state' = "Failed"
    /\ spc' = "done"
    /\ returned' = [done |-> TRUE, session |-> FALSE, err |-> err]
    /\ facadeRet' = IF call \in Facades
                    THEN [done |-> TRUE, close |-> FALSE, result |-> NoResult,
                          err |-> err]
                    ELSE facadeRet

\* NewVMSession lines 67-70: dialWebSocket.
Dial ==
    /\ spc = "dial"
    /\ \E o \in DialOutcomes :
         LET r == DialWebSocket(config, o) IN
         /\ lastDial' = [done |-> TRUE, o |-> o, r |-> r]
         /\ dialAttempts' = dialAttempts + (IF r.dialed THEN 1 ELSE 0)
         /\ IF r.conn
            THEN /\ conn' = "open"
                 /\ state' = "Authenticating"
                 /\ spc' = "handshake"
                 /\ UNCHANGED <<returned, facadeRet>>
            ELSE /\ FailOpen(r.err)
                 /\ UNCHANGED conn
    /\ UNCHANGED <<call, callerCfg, config, libCloses, codeCloses,
                   sshClient, sftpClient, sftpCreated, handshakeAttempts,
                   lastHandshake, lastExec, execCount, lastUpload, uploadCount,
                   lastClose, closeCount, events, pending, remote, ops>>

\* NewVMSession lines 73-100: the SSH handshake over the stream.
Handshake ==
    /\ spc = "handshake"
    /\ \E hs \in HandshakeOutcomes :
         LET r == AfterHandshake(hs)
             lib == LibClosesOnHandshake(hs)
         IN
         /\ lastHandshake' = hs
         /\ handshakeAttempts' = handshakeAttempts + 1
         /\ libCloses' = libCloses + lib
         /\ codeCloses' = codeCloses + r.closes
         /\ conn' = IF lib + r.closes > 0 THEN "closed" ELSE conn
         /\ IF r.session
            THEN /\ sshClient' = "open"
                 /\ state' = "Ready"
                 /\ spc' = "ready"
                 /\ returned' = [done |-> TRUE, session |-> TRUE, err |-> NilErr]
                 /\ events' = Log("open")
                 /\ UNCHANGED facadeRet
            ELSE /\ FailOpen(r.err)
                 /\ UNCHANGED <<sshClient, events>>
    /\ UNCHANGED <<call, callerCfg, config, sftpClient, sftpCreated,
                   dialAttempts, lastDial, lastExec, execCount, lastUpload,
                   uploadCount, lastClose, closeCount, pending, remote, ops>>

\* As a slip: an operation that returns an error tears the session down.
StateAfterOpClosesOnError(st, err) == IF err.is THEN "Closed" ELSE st

\* ExecuteCommand, ExecuteScript and UploadFile (lines 104-232) assign no
\* field of the session but sftpClient: the session stays what it was.
StateAfterOp(st, err) == st

\* One ExecuteCommand or ExecuteScript call on the session. (lastExec and
\* lastUpload describe the operation that ran last: each clears the other.)
Execute(what, cmd, o) ==
    /\ lastExec' = [what |-> what, o |-> o, r |-> ExecuteResult(what, o),
                    command |-> cmd,
                    ran |-> IF cmd.path = ScriptPath /\ o.open
                            THEN remote[ScriptPath].content ELSE ""]
    /\ execCount' = execCount + 1
    /\ lastUpload' = NoUpload
    /\ state' = StateAfterOp(state, ExecuteResult(what, o).err)
    /\ events' = Log("exec")

\* One UploadFile call (UploadBytes, lines 230-232, is UploadFile on a
\* bytes.Reader) with options opts, content data, failing at failAt.
Upload(opts, data, failAt) ==
    LET r == UploadFileRun(sftpClient, opts, failAt) IN
    /\ lastUpload' = [opts |-> opts, data |-> data, failAt |-> failAt, r |-> r]
    /\ uploadCount' = uploadCount + 1
    /\ sftpClient' = r.sftp
    /\ sftpCreated' = sftpCreated + r.created
    /\ remote' = [remote EXCEPT ![opts.RemotePath] =
                    FileAfter(@, r.file, data, opts.Permissions)]
    /\ lastExec' = NoExec
    /\ state' = StateAfterOp(state, r.err)
    /\ events' = Log(IF r.err.is THEN "upload failed" ELSE "upload")

\* One vmSession.Close call whose steps give the results ok.
Close(ok) ==
    LET r == CloseRun(sftpClient, ok)
        tried(res) == \E i \in 1..Len(r.steps) : r.steps[i].res = res
        lib == IF tried("ssh") THEN LibClosesOnClientClose ELSE 0
        own == IF tried("ws") THEN 1 ELSE 0
    IN
    /\ lastClose' = r
    /\ closeCount' = closeCount + 1
    /\ sftpClient' = IF tried("sftp") /\ sftpClient = "open" THEN "closed"
                     ELSE sftpClient
    /\ sshClient' = IF tried("ssh") THEN "closed" ELSE sshClient
    /\ libCloses' = libCloses + lib
    /\ codeCloses' = codeCloses + own
    /\ conn' = IF lib + own > 0 THEN "closed" ELSE conn
    /\ state' = "Closed"
    /\ events' = Log("close")

\* The caller of NewVMSession runs ExecuteCommand on the session.
CallExecuteCommand ==
    /\ call = "NewVMSession" /\ spc = "ready" /\ ops < MaxOps
    /\ \E o \in ExecOutcomes :
         Execute("command execution failed", [exports |-> "none", path |-> "cmd"], o)
    /\ ops' = ops + 1
    /\ UNCHANGED <<call, spc, callerCfg, config, conn, libCloses,
                   codeCloses, sshClient, sftpClient, sftpCreated, dialAttempts,
                   handshakeAttempts, lastDial, lastHandshake, returned,
                   uploadCount, lastClose, closeCount, pending, facadeRet,
                   remote>>

\* The caller of NewVMSession runs ExecuteScript on the session.
CallExecuteScript ==
    /\ call = "NewVMSession" /\ spc = "ready" /\ ops < MaxOps
    /\ \E o \in ExecOutcomes :
         Execute("script execution failed", [exports |-> "E", path |-> "/bin/bash"], o)
    /\ ops' = ops + 1
    /\ UNCHANGED <<call, spc, callerCfg, config, conn, libCloses,
                   codeCloses, sshClient, sftpClient, sftpCreated, dialAttempts,
                   handshakeAttempts, lastDial, lastHandshake, returned,
                   uploadCount, lastClose, closeCount, pending, facadeRet,
                   remote>>

\* The caller of NewVMSession runs UploadFile or UploadBytes on the session.
CallUploadFile ==
    /\ call = "NewVMSession" /\ spc = "ready" /\ ops < MaxOps
    /\ \E opts \in UploadOpts :
         \E failAt \in UploadFailures(sftpClient, opts) :
           Upload(opts, "s1", failAt)
    /\ ops' = ops + 1
    /\ UNCHANGED <<call, spc, callerCfg, config, conn, libCloses,
                   codeCloses, sshClient, dialAttempts, handshakeAttempts,
                   lastDial, lastHandshake, returned, execCount, lastClose,
                   closeCount, pending, facadeRet>>

\* The caller of NewVMSession closes the session.
CallClose ==
    /\ call = "NewVMSession" /\ spc = "ready"
    /\ \E ok \in CloseResults : Close(ok)
    /\ spc' = "done"
    /\ UNCHANGED <<call, callerCfg, config, sftpCreated, dialAttempts,
                   handshakeAttempts, lastDial, lastHandshake, returned,
                   lastExec, execCount, lastUpload, uploadCount, pending,
                   facadeRet, remote, ops>>

\* RunCloudInit line 271: ExecuteScript on the session just opened.
RunCloudInitExecute ==
    /\ call = "RunCloudInit" /\ spc = "ready"
    /\ \E o \in ExecOutcomes, env \in Envs :
         /\ Execute("script execution failed",
                    [exports |-> env, path |-> "/bin/bash"], o)
         /\ pending' = [done |-> FALSE]
                       @@ RunCloudInitAfterExecute(ExecuteResult("script execution failed", o))
    /\ spc' = "defer"
    /\ UNCHANGED <<call, callerCfg, config, conn, libCloses,
                   codeCloses, sshClient, sftpClient, sftpCreated, dialAttempts,
                   handshakeAttempts, lastDial, lastHandshake, returned,
                   uploadCount, lastClose, closeCount, facadeRet, remote, ops>>

\* UploadAndRunScript lines 284-291: UploadBytes of the script.
UploadAndRunUpload ==
    /\ call = "UploadAndRunScript" /\ spc = "ready"
    /\ \E data \in Scripts, failAt \in UploadFailures(sftpClient, ScriptUploadOptions) :
         LET a == AfterUpload(UploadFileRun(sftpClient, ScriptUploadOptions, failAt)) IN
         /\ Upload(ScriptUploadOptions, data, failAt)
         /\ IF a.exec
            THEN /\ spc' = "uploaded"
                 /\ UNCHANGED pending
            ELSE /\ spc' = "defer"
                 /\ pending' = [done |-> FALSE, close |-> TRUE,
                                result |-> a.result, err |-> a.err]
    /\ UNCHANGED <<call, callerCfg, config, conn, libCloses,
                   codeCloses, sshClient, dialAttempts, handshakeAttempts,
                   lastDial, lastHandshake, returned, execCount, lastClose,
                   closeCount, facadeRet, ops>>

\* UploadAndRunScript lines 294-301: ExecuteCommand of the uploaded script.
UploadAndRunExecute ==
    /\ call = "UploadAndRunScript" /\ spc = "uploaded"
    /\ \E o \in ExecOutcomes, env \in Envs :
         LET r == ExecuteResult("command execution failed", o) IN
         /\ Execute("command execution failed", ScriptCommand(env), o)
         /\ pending' = [done |-> FALSE, close |-> TRUE, result |-> r.result,
                        err |-> r.err]
    /\ spc' = "defer"
    /\ UNCHANGED <<call, callerCfg, config, conn, libCloses,
                   codeCloses, sshClient, sftpClient, sftpCreated, dialAttempts,
                   handshakeAttempts, lastDial, lastHandshake, returned,
                   uploadCount, lastClose, closeCount, facadeRet, remote, ops>>

\* RunCloudInit line 269 and UploadAndRunScript line 281: the deferred
\* session.Close runs, its error is dropped, and the operation returns.
FacadeReturn ==
    /\ call \in Facades /\ spc = "defer"
    /\ IF pending.close
       THEN \E ok \in CloseResults :
              /\ Close(ok)
              /\ facadeRet' =
                   [AfterDeferredClose(pending, CloseRun(sftpClient, ok).err)
                      EXCEPT !.done = TRUE]
       ELSE /\ UNCHANGED <<lastClose, closeCount, sftpClient, sshClient,
                           libCloses, codeCloses, conn, state, events>>
            /\ facadeRet' = [pending EXCEPT !.done = TRUE]
    /\ spc' = "done"
    /\ UNCHANGED <<call, callerCfg, config, sftpCreated, dialAttempts,
                   handshakeAttempts, lastDial, lastHandshake, returned,
                   lastExec, execCount, lastUpload, uploadCount, pending,
                   remote, ops>>

\* ------------------------------------------------------------ specification

InitSession ==
    /\ call = "none"
    /\ spc = "idle"
    /\ state = "None"
    /\ callerCfg = BaseConfig
    /\ config = BaseConfig
    /\ conn = "none"
    /\ libCloses = 0
    /\ codeCloses = 0
    /\ sshClient = "none"
    /\ sftpClient = "unset"
    /\ sftpCreated = 0
    /\ dialAttempts = 0
    /\ handshakeAttempts = 0
    /\ lastDial = [done |-> FALSE, o |-> [ok |-> TRUE, status |-> 101, cause |-> "none"],
                   r |-> [dialed |-> FALSE, conn |-> FALSE, err |-> NilErr,
                          port |-> 0, wait |-> 0]]
    /\ lastHandshake = [ok |-> FALSE, auth |-> FALSE, cause |-> "none"]
    /\ returned = NoReturn
    /\ lastExec = NoExec
    /\ execCount = 0
    /\ lastUpload = NoUpload
    /\ uploadCount = 0
    /\ lastClose = [steps |-> <<>>, err |-> NilErr]
    /\ closeCount = 0
    /\ events = <<>>
    /\ pending = NoFacadeRet
    /\ facadeRet = NoFacadeRet
    /\ remote = [pa \in Paths |-> NoFile]
    /\ ops = 0

\* ------------------------------------- an operation waiting on the network

\* Number of operations called on the session.
MaxCalls == 2

\* The blocking operations of a session.
BlockingOps == {"ExecuteCommand", "ExecuteScript", "UploadFile", "UploadBytes"}

\* The context a caller passes to an operation: the one it gave to
\* NewVMSession, one derived from that, or one unrelated to it.
OpContexts == {"dial", "child", "other"}

\* Whether context k is done: a derived context is done with its parent.
ContextDone(k) ==
    CASE k = "dial" -> dialCtxDone
      [] k = "child" -> dialCtxDone \/ "child" \in cancelled
      [] OTHER -> k \in cancelled

NoOp == [name |-> "none", ctx |-> "dial", pc |-> "idle", err |-> Nil]

\* ExecuteCommand line 104, ExecuteScript line 136, UploadFile line 194,
\* UploadBytes line 230: the operation is called with context k and waits for
\* the VM (session.Run, the SFTP requests): the SSH client has a Read
\* pending on the stream. The body never refers to ctx.
OpCall(name, k) ==
    /\ state = "Ready"
    /\ op.pc # "blocked"
    /\ opCalls < MaxCalls
    /\ op' = [name |-> name, ctx |-> k, pc |-> "blocked", err |-> Nil]
    /\ opCalls' = opCalls + 1
    /\ UNCHANGED cancelled

\* The VM answers and the operation returns without a transport error.
OpReply ==
    /\ op.pc = "blocked"
    /\ ~ctxDone /\ ~wsClosed
    /\ op' = [op EXCEPT !.pc = "returned", !.err = Nil]
    /\ UNCHANGED <<cancelled, opCalls>>

\* The pending Read on the stream fails (part_001:76-79: the stream's
\* context is done or the WebSocket is closed), the SSH client gives up and
\* the operation returns the error, wrapped.
OpFail ==
    /\ op.pc = "blocked"
    /\ ctxDone \/ wsClosed
    /\ op' = [op EXCEPT !.pc = "returned", !.err = "err"]
    /\ UNCHANGED <<cancelled, opCalls>>

\* The caller cancels a context that is not the one given to the dial.
CancelOpCtx(k) ==
    /\ k \in OpContexts \ {"dial"}
    /\ k \notin cancelled
    /\ cancelled' = cancelled \cup {k}
    /\ UNCHANGED <<op, opCalls>>

InitOp ==
    /\ op = NoOp
    /\ cancelled = {}
    /\ opCalls = 0

\* The session layer after NewVMSession returned a session (defaults
\* applied to an empty configuration, dial and handshake succeeded).
InitReady ==
    /\ call = "NewVMSession"
    /\ spc = "ready"
    /\ state = "Ready"
    /\ callerCfg = BaseConfig
    /\ config = SetDefaults(callerCfg)
    /\ conn = "open"
    /\ libCloses = 0
    /\ codeCloses = 0
    /\ sshClient = "open"
    /\ sftpClient = "unset"
    /\ sftpCreated = 0
    /\ dialAttempts = 1
    /\ handshakeAttempts = 1
    /\ lastDial = [done |-> TRUE, o |-> [ok |-> TRUE, status |-> 101, cause |-> "none"],
                   r |-> DialWebSocket(config, [ok |-> TRUE, status |-> 101,
                                                cause |-> "none"])]
    /\ lastHandshake = [ok |-> TRUE, auth |-> FALSE, cause |-> "none"]
    /\ returned = [done |-> TRUE, session |-> TRUE, err |-> NilErr]
    /\ lastExec = NoExec
    /\ execCount = 0
    /\ lastUpload = NoUpload
    /\ uploadCount = 0
    /\ lastClose = [steps |-> <<>>, err |-> NilErr]
    /\ closeCount = 0
    /\ events = <<>>
    /\ pending = NoFacadeRet
    /\ facadeRet = NoFacadeRet
    /\ remote = [pa \in Paths |-> NoFile]
    /\ ops = 0

\* ------------------------------------------- the functions of a value

\* Longest environment value, longest value in an environment of two
\* entries, longest VM name.
MaxVal == 3
MaxPairVal == 1
MaxName == 2

\* Sequences over `chars` no longer than n.
SeqUpTo(chars, n) == UNION {[1..k -> chars] : k \in 0..n}

\* The characters of an environment value: a letter, the single quote, and
\* the characters a shell treats specially outside single quotes.
ValueChars == {"a", "'", "\"", "$", " ", "\\", "\n", ";"}
Values == SeqUpTo(ValueChars, MaxVal)

EnvKeys == {"A", "B"}

\* The env maps a caller passes: empty, one entry, two entries.
EnvMaps ==
    {<<>>}
    \cup {[k \in {"A"} |-> v] : v \in Values}
    \cup [EnvKeys -> SeqUpTo(ValueChars, MaxPairVal)]

\* The orders in which `for key, value := range env` can visit the map.
Orders(env) ==
    LET n == Cardinality(DOMAIN env) IN
    IF n = 0 THEN {<<>>}
    ELSE {o \in [1..n -> DOMAIN env] : \A i, j \in 1..n : o[i] = o[j] => i = j}

\* The escaping as a slip: the value is written as it is.
EscapeValueNone(value) == value

\* strings.ReplaceAll(value, "'", "'\"'\"'") (session.go lines 147, 296).
RECURSIVE EscapeValue(_)
EscapeValue(value) ==
    IF value = <<>> THEN <<>>
    ELSE (IF Head(value) = "'" THEN <<"'", "\"", "'", "\"", "'">>
          ELSE <<Head(value)>>)
         \o EscapeValue(Tail(value))

\* The export statements the loops of lines 146-150 and 295-298 write, each
\* ended by `end`: "export %s='%s'\n" and "export %s='%s'; ".
RECURSIVE ExportLines(_, _, _)
ExportLines(env, order, end) ==
    IF order = <<>> THEN <<>>
    ELSE <<"export ", Head(order), "=", "'">>
         \o EscapeValue(env[Head(order)]) \o <<"'">> \o end
         \o ExportLines(env, Tail(order), end)

\* ExecuteScript lines 144-151: the text given to the shell, the map
\* visited in `order`.
ScriptText(env, order, script) ==
    <<"#!/bin/bash", "\n", "set -e", "\n">>
    \o ExportLines(env, order, <<"\n">>) \o <<script>>

\* UploadAndRunScript lines 294-299: the command line.
CommandText(env, order) ==
    ExportLines(env, order, <<";", " ">>) \o <<ScriptPath>>

\* TunnelConfig values: every combination of a base URL, a VM name, unset
\* and set optional fields (a set value may equal the default), tokens and
\* credentials.
Bases == {ParsedBase("http", "localhost:6120", ""),
          ParsedBase("https", "orchard.example.com", "/v1"), BadBase}
NameChars == {"a", " ", "/", "%"}
Names == SeqUpTo(NameChars, MaxName)
Credentials == {[user |-> "admin", pass |-> "admin"],
                [user |-> "root", pass |-> "secret"]}
PureConfigs ==
    {[OrchardBaseURL |-> b, BearerToken |-> tk, VMName |-> n, SSHPort |-> po,
      WaitSeconds |-> w, SSHUsername |-> cred.user, SSHPassword |-> cred.pass,
      Timeout |-> t] :
       b \in Bases, tk \in {"token", "other"}, n \in Names,
       po \in {0, DefaultSSHPort, 2222}, w \in {0, DefaultWaitSeconds, 60},
       cred \in Credentials, t \in {0, 10}}

\* A call: the function and its arguments.
PureInputs ==
    {[fn |-> "ExecuteScript", x |-> [env |-> e, script |-> sc]] :
       e \in EnvMaps, sc \in Scripts}
    \cup {[fn |-> "UploadAndRunScript", x |-> [env |-> e, script |-> sc]] :
            e \in EnvMaps, sc \in Scripts}
    \cup {[fn |-> "SetDefaults", x |-> c] : c \in PureConfigs}
    \cup {[fn |-> "buildWebSocketURL", x |-> c] : c \in PureConfigs}

NoInput == [fn |-> "none", x |-> <<>>]
NoOutput == [fn |-> "none", val |-> <<>>]

\* ExecuteScript builds its script.
BuildScript ==
    /\ pureIn.fn = "ExecuteScript"
    /\ pureOut = NoOutput
    /\ \E order \in Orders(pureIn.x.env) :
         pureOut' = [fn |-> pureIn.fn,
                     val |-> ScriptText(pureIn.x.env, order, pureIn.x.script)]
    /\ UNCHANGED pureIn

\* UploadAndRunScript builds its command line.
BuildCommand ==
    /\ pureIn.fn = "UploadAndRunScript"
    /\ pureOut = NoOutput
    /\ \E order \in Orders(pureIn.x.env) :
         pureOut' = [fn |-> pureIn.fn, val |-> CommandText(pureIn.x.env, order)]
    /\ UNCHANGED pureIn

\* SetDefaults on a config, and on the config it left.
ApplySetDefaults ==
    /\ pureIn.fn = "SetDefaults"
    /\ pureOut = NoOutput
    /\ pureOut' = [fn |-> pureIn.fn,
                   val |-> [once |-> SetDefaults(pureIn.x),
                            twice |-> SetDefaults(SetDefaults(pureIn.x))]]
    /\ UNCHANGED pureIn

\* buildWebSocketURL on a config.
ApplyBuildWebSocketURL ==
    /\ pureIn.fn = "buildWebSocketURL"
    /\ pureOut = NoOutput
    /\ pureOut' = [fn |-> pureIn.fn, val |-> BuildWebSocketURL(pureIn.x)]
    /\ UNCHANGED pureIn

\* No function of a value is being called.
InitIdle ==
    /\ pureIn = NoInput
    /\ pureOut = NoOutput

\* ------------------------------------------------- the deadline setters

\* Number of setter calls made on a stream.
MaxDeadlines == 2

\* SetDeadline, SetReadDeadline, SetWriteDeadline and the directions each
\* is about.
DeadlineSetters == {"SetDeadline", "SetReadDeadline", "SetWriteDeadline"}
DeadlineDirs(fn) ==
    CASE fn = "SetReadDeadline" -> {"read"}
      [] fn = "SetWriteDeadline" -> {"write"}
      [] OTHER -> {"read", "write"}

\* The setters as a slip: a deadline in the past cancels the stream's
\* context.
SetDeadlineResultHonoursPast(fn, past, st) ==
    [ret |-> Nil, st |-> IF past THEN [st EXCEPT !.ctxDone = TRUE] ELSE st]

\* part_001 lines 112-114, 117-119, 122-124: what setter fn, given a time
\* in the past or not, returns and makes of the stream's context, cursor
\* and transport: `return nil`, nothing else.
SetDeadlineResult(fn, past, st) == [ret |-> Nil, st |-> st]

\* A goroutine calls one of the three setters, with a time in the past or a
\* later (or zero) one.
SetDeadlineCall ==
    /\ deadlines.calls < MaxDeadlines
    /\ \E fn \in DeadlineSetters, past \in BOOLEAN :
         LET r == SetDeadlineResult(fn, past,
                    [ctxDone |-> ctxDone, reader |-> reader,
                     wsClosed |-> wsClosed])
         IN
         /\ ctxDone' = r.st.ctxDone
         /\ reader' = r.st.reader
         /\ wsClosed' = r.st.wsClosed
         /\ deadlines' = [calls |-> deadlines.calls + 1,
                          past |-> IF past
                                   THEN deadlines.past \cup DeadlineDirs(fn)
                                   ELSE deadlines.past \ DeadlineDirs(fn),
                          ret |-> r.ret]
    /\ UNCHANGED <<inbox, arrived, nmsgs, mu, rpc, rbuf, cur, lastRead,
                   delivered, dialCtxDone, wr, closeCalls, outbox, lastWrite>>

InitNoDeadline ==
    deadlines = [calls |-> 0, past |-> {}, ret |-> "unset"]

\* ------------------------------------------ several sessions, one process

SessionIds == {"A", "B"}

\* The fields of a vmSession (session.go lines 53-58) and of the wsNetConn
\* it holds (part_001 lines 31-39) before NewVMSession made them.
NoSession ==
    [state |-> "none", ws |-> "none", ctxDone |-> FALSE, reader |-> "none",
     sshClient |-> "none", sftpClient |-> "unset"]

\* NewVMSession returned a session: its own stream, context and SSH client.
OpenedSession ==
    [state |-> "Ready", ws |-> "open", ctxDone |-> FALSE, reader |-> "none",
     sshClient |-> "open", sftpClient |-> "unset"]

\* The session after an ExecuteCommand or ExecuteScript that met outcome o,
\* its traffic leaving the read cursor rd.
ExecutedSession(s, o, rd) ==
    [s EXCEPT !.state = StateAfterOp(s.state, ExecuteResult("command", o).err),
              !.reader = rd]

\* The session after an UploadFile whose ensureSFTP failed or not.
UploadedSession(s, fails, rd) ==
    [s EXCEPT !.sftpClient = EnsureSFTP(s.sftpClient, fails).sftp,
              !.reader = rd]

\* The session after Close (lines 235-260): its SFTP client if it has one,
\* its SSH client, its stream.
ClosedSession(s) ==
    [s EXCEPT !.state = "Closed",
              !.sftpClient = IF s.sftpClient = "unset" THEN "unset" ELSE "closed",
              !.sshClient = "closed",
              !.ws = "closed",
              !.ctxDone = TRUE]

\* Close as a slip: the sessions of the process share one stream.
StreamsClosedByShared(i) == SessionIds

\* The sessions whose stream s.wsConn.Close() of session i closes (lines
\* 250-254): wsConn is a field of the receiver, made by its own dial.
StreamsClosedBy(i) == {i}

\* NewVMSession for session i succeeds.
FleetOpen(i) ==
    /\ fleet[i].state = "none"
    /\ fleet' = [fleet EXCEPT ![i] = OpenedSession]
    /\ actor' = [on |-> i, op |-> "NewVMSession"]

\* ExecuteCommand or ExecuteScript on session i.
FleetExecute(i) ==
    /\ fleet[i].state = "Ready"
    /\ \E o \in ExecOutcomes, rd \in {"none", "partial"} :
         fleet' = [fleet EXCEPT ![i] = ExecutedSession(fleet[i], o, rd)]
    /\ actor' = [on |-> i, op |-> "Execute"]

\* UploadFile on session i.
FleetUpload(i) ==
    /\ fleet[i].state = "Ready"
    /\ \E fails \in BOOLEAN, rd \in {"none", "partial"} :
         fleet' = [fleet EXCEPT ![i] = UploadedSession(fleet[i], fails, rd)]
    /\ actor' = [on |-> i, op |-> "UploadFile"]

\* Close on session i.
FleetClose(i) ==
    /\ fleet[i].state \in {"Ready", "Closed"}
    /\ fleet' = [j \in SessionIds |->
                   IF j = i THEN ClosedSession(fleet[j])
                   ELSE IF j \in StreamsClosedBy(i) /\ fleet[j].ws = "open"
                   THEN [fleet[j] EXCEPT !.ws = "closed", !.ctxDone = TRUE]
                   ELSE fleet[j]]
    /\ actor' = [on |-> i, op |-> "Close"]

InitFleet ==
    /\ fleet = [i \in SessionIds |-> NoSession]
    /\ actor = [on |-> Nil, op |-> "none"]

\* ====================================================================
\* The VM reconciler: internal/controller/vm/vm.go
\* ====================================================================

\* Number of UploadAndRunScript and of Delete calls for one resource.
MaxAttempts == 2
MaxDeletes == 2

maxConditionMessageLen == 1024

\* A message: the format it was made with and its arguments, the length of
\* the formatted text, how many of its characters are kept, and whether
\* "..." follows them.
NoMessage == [fmt |-> "", args |-> <<>>, orig |-> 0, kept |-> 0, dots |-> FALSE]
Message(fmt, args, n) ==
    [fmt |-> fmt, args |-> args, orig |-> n, kept |-> n, dots |-> FALSE]
MessageLen(m) == m.kept + (IF m.dots THEN 3 ELSE 0)

\* Number of decimal digits of an exit code.
Digits(k) == IF k < 10 THEN 1 ELSE IF k < 100 THEN 2 ELSE 3

\* truncateMessage (lines 588-594).
TruncateMessage(msg) ==
    IF MessageLen(msg) <= maxConditionMessageLen THEN msg
    ELSE [msg EXCEPT !.kept = maxConditionMessageLen - 3, !.dots = TRUE]

\* The Ready condition: its reason (Available, Creating, Unavailable,
\* Deleting) and its message.
NoCondition == [reason |-> "", msg |-> NoMessage]
Condition(reason, msg) == [reason |-> reason, msg |-> msg]

\* setCloudInitStatus (lines 582-586).
SetCloudInitStatus(c, status, message) ==
    [c EXCEPT !.CloudInitStatus = status, !.CloudInitMessage = message]

\* A VM resource not yet created, with startup script `script` ("": none).
NewCR(script) ==
    [ExternalName |-> FALSE, Script |-> script, Status |-> "",
     IPAddress |-> FALSE, CloudInitStatus |-> "", CloudInitMessage |-> NoMessage,
     Ready |-> NoCondition]

\* The statuses Orchard reports for a VM.
VMStatuses == {"pending", "running", "stopped", "failed"}

NoVM == [exists |-> FALSE, status |-> "", ip |-> FALSE, ssh |-> FALSE]

\* What isSSHReady meets: NewVMSession fails; "ls -al" fails; it exits
\* non-zero; it exits 0. An SSH server that is up answers the probe.
ProbeOutcomes(ssh) ==
    IF ssh THEN {[opened |-> TRUE, cmdErr |-> FALSE, exit |-> 0]}
    ELSE {[opened |-> FALSE, cmdErr |-> FALSE, exit |-> 0],
          [opened |-> TRUE, cmdErr |-> TRUE, exit |-> 0],
          [opened |-> TRUE, cmdErr |-> FALSE, exit |-> 1]}

\* Lengths of err.Error() and of the script's stderr, around the lengths
\* that make a message of maxConditionMessageLen characters.
ErrLens == {20, 1005, 1006}
StderrLens == {0, 1010, 1011, 4000}

\* What UploadAndRunScript returns: an error, or the result of the script.
RunOutcomes ==
    {[err |-> TRUE, errLen |-> n, ExitCode |-> 0, stderrLen |-> 0] : n \in ErrLens}
    \cup {[err |-> FALSE, errLen |-> 0, ExitCode |-> 0, stderrLen |-> 0]}
    \cup {[err |-> FALSE, errLen |-> 0, ExitCode |-> 42, stderrLen |-> n] :
            n \in StderrLens}

\* isSSHReady line 639 as a slip: the probe's exit code is not looked at.
ProbeReadyIgnoresExit(probe) == probe.opened /\ ~probe.cmdErr

\* isSSHReady lines 630-639: the session opened, and "ls -al" returned no
\* error and exit code 0.
ProbeReady(probe) == probe.opened /\ ~probe.cmdErr /\ probe.exit = 0

\* What an Observe did over SSH: the probe, its session opened and closed
\* (line 634, deferred), UploadAndRunScript called, the script run to an
\* exit status.
NoSSH == [probed |-> FALSE, opened |-> FALSE, closed |-> FALSE,
          uploaded |-> FALSE, exited |-> FALSE]

\* executeCloudInit lines 689-711 as a slip: a non-zero exit code is
\* returned as an error.
RunVerdictExitIsError(run) ==
    IF run.err
    THEN LET m == Message("cloud-init failed: %s", <<"err">>, 19 + run.errLen) IN
         [status |-> "failed", message |-> m,
          cond |-> Condition("Unavailable", TruncateMessage(m)), err |-> ""]
    ELSE IF run.ExitCode # 0
    THEN LET m == Message("exit code %d: %s", <<run.ExitCode, "Stderr">>,
                          10 + Digits(run.ExitCode) + 2 + run.stderrLen) IN
         [status |-> "failed", message |-> m,
          cond |-> Condition("Unavailable", TruncateMessage(m)),
          err |-> "script failed"]
    ELSE [status |-> "completed", message |-> NoMessage,
          cond |-> Condition("Available", NoMessage), err |-> ""]

\* executeCloudInit lines 689-711: what is recorded and returned for what
\* UploadAndRunScript returned.
RunVerdict(run) ==
    IF run.err
    THEN LET m == Message("cloud-init failed: %s", <<"err">>, 19 + run.errLen) IN
         [status |-> "failed", message |-> m,
          cond |-> Condition("Unavailable", TruncateMessage(m)), err |-> ""]
    ELSE IF run.ExitCode # 0
    THEN LET m == Message("exit code %d: %s", <<run.ExitCode, "Stderr">>,
                          10 + Digits(run.ExitCode) + 2 + run.stderrLen) IN
         [status |-> "failed", message |-> m,
          cond |-> Condition("Unavailable", TruncateMessage(m)), err |-> ""]
    ELSE [status |-> "completed", message |-> NoMessage,
          cond |-> Condition("Available", NoMessage), err |-> ""]

\* executeCloudInit lines 678-682 as a slip: the status set at line 675 is
\* left when SSH is not ready.
AfterProbeFailedKeepsRunning(c) == c

\* executeCloudInit lines 678-682: SSH is not ready.
AfterProbeFailed(c) ==
    SetCloudInitStatus(c, "pending", Message("waiting for SSH", <<>>, 15))

\* executeCloudInit (lines 673-712) on resource c, the probe meeting
\* `probe` and UploadAndRunScript returning `run`.
ExecuteCloudInit(c, probe, run) ==
    LET c1 == SetCloudInitStatus(c, "running", NoMessage)
        probing == [NoSSH EXCEPT !.probed = TRUE, !.opened = probe.opened,
                                 !.closed = probe.opened]
        v == RunVerdict(run)
    IN
    IF ~ProbeReady(probe)
    THEN [cr |-> AfterProbeFailed(c1), err |-> "SSH not ready", conds |-> <<>>,
          ssh |-> probing]
    ELSE [cr |-> [SetCloudInitStatus(c1, v.status, v.message)
                    EXCEPT !.Ready = v.cond],
          err |-> v.err, conds |-> <<v.cond.reason>>,
          ssh |-> [probing EXCEPT !.uploaded = TRUE, !.exited = ~run.err]]

\* handleCloudInit lines 654-669 as a slip: a failed script is run again.
CloudInitBranchRetriesFailed(status) ==
    CASE status = "completed" -> "completed"
      [] status = "running" -> "running"
      [] OTHER -> "execute"

\* handleCloudInit lines 654-669: the branch of the switch on the status.
CloudInitBranch(status) ==
    CASE status = "completed" -> "completed"
      [] status = "failed" -> "failed"
      [] status = "running" -> "running"
      [] OTHER -> "execute"

\* handleCloudInit (lines 643-670).
HandleCloudInit(c, probe, run) ==
    LET set(cond) == [cr |-> [c EXCEPT !.Ready = cond], err |-> "",
                      conds |-> <<cond.reason>>, ssh |-> NoSSH]
        branch == CloudInitBranch(c.CloudInitStatus)
    IN
    IF c.Script = "" THEN set(Condition("Available", NoMessage))
    ELSE CASE branch = "completed" -> set(Condition("Available", NoMessage))
           [] branch = "failed" ->
                set(Condition("Unavailable", TruncateMessage(c.CloudInitMessage)))
           [] branch = "running" -> set(Condition("Creating", NoMessage))
           [] OTHER -> ExecuteCloudInit(c, probe, run)

\* updateVMStatus lines 338-340 as a slip: a running VM is Available at
\* once.
ReadyForStatusRunningAvailable(st) ==
    CASE st \in {"running"} -> "Available"
      [] st \in {"creating", "starting", "pending"} -> "Creating"
      [] st \in {"stopping", "deleting"} -> "Deleting"
      [] st \in {"failed", "error"} -> "Unavailable"
      [] OTHER -> ""

\* updateVMStatus lines 330-344: the Ready condition set for a VM status
\* ("": none is set).
ReadyForStatus(st) ==
    CASE st \in {"running", "creating", "starting", "pending"} -> "Creating"
      [] st \in {"stopping", "deleting"} -> "Deleting"
      [] st \in {"failed", "error"} -> "Unavailable"
      [] OTHER -> ""

\* updateVMStatus (lines 304-345), the fields the model keeps.
UpdateVMStatus(c, st) ==
    LET reason == ReadyForStatus(st) IN
    [cr |-> [c EXCEPT !.Status = st,
                      !.Ready = IF reason = "" THEN c.Ready
                                ELSE Condition(reason, NoMessage)],
     conds |-> IF reason = "" THEN <<>> ELSE <<reason>>]

\* What GetVmsName can answer: no answer, the VM with its status, not
\* found, another status code.
GetAnswers ==
    {[code |-> NoResponse, status |-> ""], [code |-> 500, status |-> ""]}
    \cup (IF orchard.exists THEN {[code |-> 200, status |-> orchard.status]}
         ELSE {[code |-> 404, status |-> ""]})

\* What one Observe returns and leaves in the resource (lines 233-298):
\* `answer` from GetVmsName, the IP address fetched or not, the probe and
\* UploadAndRunScript meeting `probe` and `run`.
ObserveRun(c, answer, ipOK, probe, run) ==
    LET ret(c2, exists, err, conds, ssh) ==
            [cr |-> c2, exists |-> exists, err |-> err, conds |-> conds,
             ssh |-> ssh]
        u == UpdateVMStatus(c, answer.status)
        c2 == IF ipOK THEN [u.cr EXCEPT !.IPAddress = TRUE] ELSE u.cr
        h == HandleCloudInit(c2, probe, run)
    IN
    IF ~c.ExternalName THEN ret(c, FALSE, "", <<>>, NoSSH)
    ELSE IF answer.code = NoResponse THEN ret(c, FALSE, "cannot get VM", <<>>, NoSSH)
    ELSE IF answer.code = 404 THEN ret(c, FALSE, "", <<>>, NoSSH)
    ELSE IF answer.code # 200
    THEN ret(c, FALSE, "unexpected status code", <<>>, NoSSH)
    ELSE IF answer.status # "running" THEN ret(u.cr, TRUE, "", u.conds, NoSSH)
    ELSE IF ~c2.IPAddress
    THEN ret([c2 EXCEPT !.Ready = Condition("Creating", NoMessage)], TRUE, "",
             u.conds \o <<"Creating">>, NoSSH)
    ELSE IF h.err # ""
    THEN ret(h.cr, TRUE, "cannot execute cloud-init script", u.conds \o h.conds,
             h.ssh)
    ELSE ret(h.cr, TRUE, "", u.conds \o h.conds, h.ssh)

\* The run and the probe of an Observe that makes none.
NoRun == [err |-> FALSE, errLen |-> 0, ExitCode |-> 0, stderrLen |-> 0]
NoProbe == [opened |-> FALSE, cmdErr |-> FALSE, exit |-> 0]

NoObserve ==
    [called |-> FALSE, answer |-> [code |-> NoResponse, status |-> ""],
     exists |-> FALSE, err |-> "", conds |-> <<>>,
     ssh |-> NoSSH, probe |-> NoProbe, run |-> NoRun]

\* One Observe of the resource; the managed reconciler stores the status
\* the call left in the resource, whatever the call returned.
ObserveWith(answers) ==
    /\ attempts < MaxAttempts
    /\ \E answer \in answers, ipOK \in (IF orchard.ip THEN BOOLEAN ELSE {FALSE}) :
       \E probe \in (IF ObserveRun(cr, answer, ipOK, NoProbe, NoRun).ssh.probed
                     THEN ProbeOutcomes(orchard.ssh) ELSE {NoProbe}) :
       \E run \in (IF ObserveRun(cr, answer, ipOK, probe, NoRun).ssh.uploaded
                   THEN RunOutcomes ELSE {NoRun}) :
         LET r == ObserveRun(cr, answer, ipOK, probe, run) IN
         /\ cr' = r.cr
         /\ lastObserve' = [called |-> TRUE, answer |-> answer,
                            exists |-> r.exists, err |-> r.err,
                            conds |-> r.conds, ssh |-> r.ssh, probe |-> probe,
                            run |-> run]
         /\ attempts' = attempts + (IF r.ssh.uploaded THEN 1 ELSE 0)
         /\ runs' = runs + (IF r.ssh.exited THEN 1 ELSE 0)
    /\ UNCHANGED <<orchard, lastDelete, deletes>>

Observe == ObserveWith(GetAnswers)

\* An Observe that Orchard answers.
ObserveAnswered == ObserveWith({a \in GetAnswers : a.code = 200})

\* Create (lines 347-400), called for a resource whose VM does not exist:
\* the external name is set, then the VM is posted; Orchard creates it
\* unless the call fails.
Create ==
    /\ ~orchard.exists
    /\ cr' = [cr EXCEPT !.ExternalName = TRUE]
    /\ \E created \in BOOLEAN :
         orchard' = IF created
                    THEN [exists |-> TRUE, status |-> "pending", ip |-> FALSE,
                          ssh |-> FALSE]
                    ELSE orchard
    /\ UNCHANGED <<lastObserve, lastDelete, attempts, runs, deletes>>

\* Delete lines 454-457 as a slip: not found is an error.
DeleteResultRejectsNotFound(code) ==
    IF code \in {200, 204} THEN "" ELSE "unexpected status code deleting VM"

\* Delete lines 454-457: what Delete returns for the API's status code.
DeleteResult(code) ==
    IF code \in {200, 204, 404} THEN "" ELSE "unexpected status code deleting VM"

\* What DeleteVmsName can answer: no answer, deleted (200 or 204), not
\* found when there is no such VM, another status code.
DeleteAnswers ==
    {NoResponse, 500}
    \cup (IF orchard.exists THEN {200, 204} ELSE {404})

\* No Delete yet (prev: the answer the Delete before the last one got).
NoDelete == [called |-> FALSE, api |-> FALSE, code |-> 0, err |-> "", prev |-> 0]

\* Delete (lines 435-460).
Delete ==
    /\ deletes < MaxDeletes
    /\ deletes' = deletes + 1
    /\ IF ~cr.ExternalName
       THEN /\ lastDelete' = [called |-> TRUE, api |-> FALSE, code |-> 0,
                              err |-> "", prev |-> lastDelete.code]
            /\ UNCHANGED orchard
       ELSE \E code \in DeleteAnswers :
              /\ lastDelete' = [called |-> TRUE, api |-> TRUE, code |-> code,
                                err |-> IF code = NoResponse THEN "cannot delete VM"
                                        ELSE DeleteResult(code),
                                prev |-> lastDelete.code]
              /\ orchard' = IF code \in {200, 204} THEN NoVM ELSE orchard
    /\ UNCHANGED <<cr, lastObserve, attempts, runs>>

\* Orchard moves the VM to another status; a running VM may have an IP
\* address.
OrchardStep ==
    /\ orchard.exists
    /\ \E st \in VMStatuses, ip \in BOOLEAN :
         /\ orchard' = [exists |-> TRUE, status |-> st,
                        ip |-> (st = "running" /\ ip),
                        ssh |-> (orchard.ssh /\ st = "running" /\ ip)]
         /\ orchard' # orchard
    /\ UNCHANGED <<cr, lastObserve, lastDelete, attempts, runs, deletes>>

\* The SSH server of a running VM with an IP address comes up.
SSHUp ==
    /\ orchard.exists /\ orchard.status = "running" /\ orchard.ip
    /\ ~orchard.ssh
    /\ orchard' = [orchard EXCEPT !.ssh = TRUE]
    /\ UNCHANGED <<cr, lastObserve, lastDelete, attempts, runs, deletes>>

\* ------------------------------ two UploadAndRunScript calls on one VM

\* The two calls, made by two goroutines or two processes against the
\* same VM, and the script text each is given.
Racers == {"a", "b"}
ScriptOf == [c \in Racers |-> IF c = "a" THEN "s1" ELSE "s2"]

\* Nothing was run.
NoScript == "none"

NoTmpScript == [exists |-> FALSE, content |-> ""]

\* NewVMSession (line 277): the call gets a session of its own, or fails.
RaceOpen(c) ==
    /\ racers[c].pc = "idle"
    /\ \E ok \in BOOLEAN :
         racers' = [racers EXCEPT
                      ![c].pc = IF ok THEN "session" ELSE "failed",
                      ![c].err = IF ok THEN "" ELSE "NewVMSession"]
    /\ UNCHANGED tmpScript

\* UploadFile lines 195-212: the SFTP client, MkdirAll of /tmp, then Create,
\* which makes the file or truncates the one that is there.
RaceCreate(c) ==
    /\ racers[c].pc = "session"
    /\ \E ok \in BOOLEAN :
         /\ racers' = [racers EXCEPT
                         ![c].pc = IF ok THEN "created" ELSE "failed",
                         ![c].err = IF ok THEN "" ELSE "failed to upload script"]
         /\ tmpScript' = IF ok THEN [exists |-> TRUE, content |-> ""]
                         ELSE tmpScript

\* UploadFile lines 215-217: io.Copy writes the script through the handle
\* Create returned.
RaceCopy(c) ==
    /\ racers[c].pc = "created"
    /\ \E ok \in BOOLEAN :
         /\ racers' = [racers EXCEPT
                         ![c].pc = IF ok THEN "written" ELSE "failed",
                         ![c].err = IF ok THEN "" ELSE "failed to upload script"]
         /\ tmpScript' = IF ok
                         THEN [exists |-> TRUE, content |-> racers[c].script]
                         ELSE tmpScript

\* UploadFile lines 220-224: Chmod to 0755; the content stays.
RaceChmod(c) ==
    /\ racers[c].pc = "written"
    /\ \E ok \in BOOLEAN :
         racers' = [racers EXCEPT
                      ![c].pc = IF ok THEN "uploaded" ELSE "failed",
                      ![c].err = IF ok THEN "" ELSE "failed to upload script"]
    /\ UNCHANGED tmpScript

\* UploadAndRunScript lines 294-301: ExecuteCommand of the exports and
\* scriptPath; the VM's shell runs the file that is at that path now.
RaceExecute(c) ==
    /\ racers[c].pc = "uploaded"
    /\ \E ok \in BOOLEAN :
         racers' = [racers EXCEPT
                      ![c].pc = IF ok THEN "executed" ELSE "failed",
                      ![c].ran = IF ok THEN tmpScript.content
                                 ELSE NoScript,
                      ![c].err = IF ok THEN "" ELSE "ExecuteCommand"]
    /\ UNCHANGED tmpScript

\* The deferred session.Close() (line 281) and the return.
RaceReturn(c) ==
    /\ racers[c].pc \in {"executed", "failed"}
    /\ racers' = [racers EXCEPT ![c].pc = "returned"]
    /\ UNCHANGED tmpScript

\* Two calls about to be made, the file not yet on the VM.
InitRace ==
    /\ tmpScript = NoTmpScript
    /\ racers = [c \in Racers |->
                   [script |-> ScriptOf[c], pc |-> "idle", ran |-> NoScript,
                    err |-> ""]]

\* No resource is being reconciled.
InitNoVM ==
    /\ cr = NewCR("")
    /\ orchard = NoVM
    /\ lastObserve = NoObserve
    /\ lastDelete = NoDelete
    /\ attempts = 0
    /\ runs = 0
    /\ deletes = 0

InitLayers ==
    InitStream /\ InitSession /\ InitOp /\ InitIdle /\ InitNoDeadline /\ InitFleet
    /\ InitRace

Init == InitLayers /\ InitNoVM

\* A new VM resource, with a startup script or without.
InitReconcile ==
    /\ InitLayers
    /\ cr \in {NewCR(""), NewCR("s1")}
    /\ orchard = NoVM
    /\ lastObserve = NoObserve
    /\ lastDelete = NoDelete
    /\ attempts = 0
    /\ runs = 0
    /\ deletes = 0

\* A resource, with a startup script or without, after the Create that
\* made its VM.
InitCreated ==
    /\ InitLayers
    /\ cr \in {[NewCR(sc) EXCEPT !.ExternalName = TRUE] : sc \in {"", "s1"}}
    /\ orchard = [exists |-> TRUE, status |-> "pending", ip |-> FALSE,
                  ssh |-> FALSE]
    /\ lastObserve = NoObserve
    /\ lastDelete = NoDelete
    /\ attempts = 0
    /\ runs = 0
    /\ deletes = 0

\* A Ready session over an open stream, no operation called yet.
InitCancel ==
    /\ InitStream /\ InitReady /\ InitOp /\ InitIdle /\ InitNoDeadline
    /\ InitFleet /\ InitNoVM /\ InitRace

\* A function of a value is about to be called with arguments of its domain.
InitPure ==
    /\ InitStream /\ InitSession /\ InitOp /\ InitNoDeadline /\ InitFleet
    /\ InitNoVM /\ InitRace
    /\ pureIn \in PureInputs
    /\ pureOut = NoOutput

NextPure ==
    \/ BuildScript /\ UNCHANGED <<streamVars, sessionVars, opVars, deadlineVars, fleetVars, reconVars, raceVars>>
    \/ BuildCommand /\ UNCHANGED <<streamVars, sessionVars, opVars, deadlineVars, fleetVars, reconVars, raceVars>>
    \/ ApplySetDefaults /\ UNCHANGED <<streamVars, sessionVars, opVars, deadlineVars, fleetVars, reconVars, raceVars>>
    \/ ApplyBuildWebSocketURL /\ UNCHANGED <<streamVars, sessionVars, opVars, deadlineVars, fleetVars, reconVars, raceVars>>

NextStream ==
    \/ (\E p \in Readers : ReadLock(p)) /\ UNCHANGED <<sessionVars, opVars, pureVars, deadlineVars, fleetVars, reconVars, raceVars>>
    \/ (\E p \in Readers : ReadBuffered(p)) /\ UNCHANGED <<sessionVars, opVars, pureVars, deadlineVars, fleetVars, reconVars, raceVars>>
    \/ (\E p \in Readers : ReadFetchFail(p)) /\ UNCHANGED <<sessionVars, opVars, pureVars, deadlineVars, fleetVars, reconVars, raceVars>>
    \/ (\E p \in Readers : ReadFetch(p)) /\ UNCHANGED <<sessionVars, opVars, pureVars, deadlineVars, fleetVars, reconVars, raceVars>>
    \/ StreamClose /\ UNCHANGED <<sessionVars, opVars, pureVars, deadlineVars, fleetVars, reconVars, raceVars>>
    \/ CancelCallerCtx /\ UNCHANGED <<sessionVars, opVars, pureVars, deadlineVars, fleetVars, reconVars, raceVars>>
    \/ PeerSend /\ UNCHANGED <<sessionVars, opVars, pureVars, deadlineVars, fleetVars, reconVars, raceVars>>

\* Both directions of a stream whose peer is silent: Read calls wait for the
\* next message, Write calls are in flight, and the stream is closed or the
\* caller's context cancelled under them.
NextDuplex ==
    \/ (\E p \in Readers : ReadLock(p)) /\ UNCHANGED <<sessionVars, opVars, pureVars, deadlineVars, fleetVars, reconVars, raceVars>>
    \/ (\E p \in Readers : ReadBuffered(p)) /\ UNCHANGED <<sessionVars, opVars, pureVars, deadlineVars, fleetVars, reconVars, raceVars>>
    \/ (\E p \in Readers : ReadFetchFail(p)) /\ UNCHANGED <<sessionVars, opVars, pureVars, deadlineVars, fleetVars, reconVars, raceVars>>
    \/ WriteCall /\ UNCHANGED <<sessionVars, opVars, pureVars, deadlineVars, fleetVars, reconVars, raceVars>>
    \/ WriteReturn /\ UNCHANGED <<sessionVars, opVars, pureVars, deadlineVars, fleetVars, reconVars, raceVars>>
    \/ StreamClose /\ UNCHANGED <<sessionVars, opVars, pureVars, deadlineVars, fleetVars, reconVars, raceVars>>
    \/ CancelCallerCtx /\ UNCHANGED <<sessionVars, opVars, pureVars, deadlineVars, fleetVars, reconVars, raceVars>>

\* One reading and one writing goroutine on a stream whose peer is silent,
\* with deadlines set under their calls, the stream closed or the caller's
\* context cancelled.
NextDeadline ==
    \/ ReadLock("r1")
         /\ UNCHANGED <<sessionVars, opVars, pureVars, deadlineVars, fleetVars, reconVars, raceVars>>
    \/ ReadBuffered("r1")
         /\ UNCHANGED <<sessionVars, opVars, pureVars, deadlineVars, fleetVars, reconVars, raceVars>>
    \/ ReadFetchFail("r1")
         /\ UNCHANGED <<sessionVars, opVars, pureVars, deadlineVars, fleetVars, reconVars, raceVars>>
    \/ WriteCall
         /\ UNCHANGED <<sessionVars, opVars, pureVars, deadlineVars, fleetVars, reconVars, raceVars>>
    \/ WriteReturn
         /\ UNCHANGED <<sessionVars, opVars, pureVars, deadlineVars, fleetVars, reconVars, raceVars>>
    \/ StreamClose
         /\ UNCHANGED <<sessionVars, opVars, pureVars, deadlineVars, fleetVars, reconVars, raceVars>>
    \/ CancelCallerCtx
         /\ UNCHANGED <<sessionVars, opVars, pureVars, deadlineVars, fleetVars, reconVars, raceVars>>
    \/ SetDeadlineCall /\ UNCHANGED <<sessionVars, opVars, pureVars, fleetVars, reconVars, raceVars>>

\* Two sessions of one process, opened, used and closed in any interleaving.
NextFleet ==
    \/ (\E i \in SessionIds : FleetOpen(i))
         /\ UNCHANGED <<streamVars, sessionVars, opVars, pureVars, deadlineVars, reconVars, raceVars>>
    \/ (\E i \in SessionIds : FleetExecute(i))
         /\ UNCHANGED <<streamVars, sessionVars, opVars, pureVars, deadlineVars, reconVars, raceVars>>
    \/ (\E i \in SessionIds : FleetUpload(i))
         /\ UNCHANGED <<streamVars, sessionVars, opVars, pureVars, deadlineVars, reconVars, raceVars>>
    \/ (\E i \in SessionIds : FleetClose(i))
         /\ UNCHANGED <<streamVars, sessionVars, opVars, pureVars, deadlineVars, reconVars, raceVars>>

\* The reconciler and Orchard: the resource is created, observed and
\* deleted while the VM changes status.
NextReconcile ==
    \/ Observe /\ UNCHANGED <<streamVars, sessionVars, opVars, pureVars,
                               deadlineVars, fleetVars, raceVars>>
    \/ Create /\ UNCHANGED <<streamVars, sessionVars, opVars, pureVars,
                              deadlineVars, fleetVars, raceVars>>
    \/ Delete /\ UNCHANGED <<streamVars, sessionVars, opVars, pureVars,
                              deadlineVars, fleetVars, raceVars>>
    \/ OrchardStep /\ UNCHANGED <<streamVars, sessionVars, opVars, pureVars,
                                   deadlineVars, fleetVars, raceVars>>
    \/ SSHUp /\ UNCHANGED <<streamVars, sessionVars, opVars, pureVars,
                             deadlineVars, fleetVars, raceVars>>

\* A created VM, observed while it changes status.
NextCloudInit ==
    \/ Observe /\ UNCHANGED <<streamVars, sessionVars, opVars, pureVars,
                               deadlineVars, fleetVars, raceVars>>
    \/ OrchardStep /\ UNCHANGED <<streamVars, sessionVars, opVars, pureVars,
                                   deadlineVars, fleetVars, raceVars>>
    \/ SSHUp /\ UNCHANGED <<streamVars, sessionVars, opVars, pureVars,
                             deadlineVars, fleetVars, raceVars>>

NextSession ==
    \/ Start /\ UNCHANGED <<streamVars, opVars, pureVars, deadlineVars, fleetVars, reconVars, raceVars>>
    \/ Dial /\ UNCHANGED <<streamVars, opVars, pureVars, deadlineVars, fleetVars, reconVars, raceVars>>
    \/ Handshake /\ UNCHANGED <<streamVars, opVars, pureVars, deadlineVars, fleetVars, reconVars, raceVars>>
    \/ CallExecuteCommand /\ UNCHANGED <<streamVars, opVars, pureVars, deadlineVars, fleetVars, reconVars, raceVars>>
    \/ CallExecuteScript /\ UNCHANGED <<streamVars, opVars, pureVars, deadlineVars, fleetVars, reconVars, raceVars>>
    \/ CallUploadFile /\ UNCHANGED <<streamVars, opVars, pureVars, deadlineVars, fleetVars, reconVars, raceVars>>
    \/ CallClose /\ UNCHANGED <<streamVars, opVars, pureVars, deadlineVars, fleetVars, reconVars, raceVars>>
    \/ RunCloudInitExecute /\ UNCHANGED <<streamVars, opVars, pureVars, deadlineVars, fleetVars, reconVars, raceVars>>
    \/ UploadAndRunUpload /\ UNCHANGED <<streamVars, opVars, pureVars, deadlineVars, fleetVars, reconVars, raceVars>>
    \/ UploadAndRunExecute /\ UNCHANGED <<streamVars, opVars, pureVars, deadlineVars, fleetVars, reconVars, raceVars>>
    \/ FacadeReturn /\ UNCHANGED <<streamVars, opVars, pureVars, deadlineVars, fleetVars, reconVars, raceVars>>

\* A Ready session whose caller runs blocking operations and cancels
\* contexts, and whose stream may be closed.
NextCancel ==
    \/ (\E name \in BlockingOps, k \in OpContexts : OpCall(name, k))
         /\ UNCHANGED <<streamVars, sessionVars, pureVars, deadlineVars, fleetVars, reconVars, raceVars>>
    \/ OpReply /\ UNCHANGED <<streamVars, sessionVars, pureVars, deadlineVars, fleetVars, reconVars, raceVars>>
    \/ OpFail /\ UNCHANGED <<streamVars, sessionVars, pureVars, deadlineVars, fleetVars, reconVars, raceVars>>
    \/ (\E k \in OpContexts : CancelOpCtx(k))
         /\ UNCHANGED <<streamVars, sessionVars, pureVars, deadlineVars, fleetVars, reconVars, raceVars>>
    \/ CancelCallerCtx /\ UNCHANGED <<sessionVars, opVars, pureVars, deadlineVars, fleetVars, reconVars, raceVars>>
    \/ StreamClose /\ UNCHANGED <<sessionVars, opVars, pureVars, deadlineVars, fleetVars, reconVars, raceVars>>

NextRace ==
    \/ (\E c \in Racers : RaceOpen(c))
         /\ UNCHANGED <<streamVars, sessionVars, opVars, pureVars, deadlineVars, fleetVars, reconVars>>
    \/ (\E c \in Racers : RaceCreate(c))
         /\ UNCHANGED <<streamVars, sessionVars, opVars, pureVars, deadlineVars, fleetVars, reconVars>>
    \/ (\E c \in Racers : RaceCopy(c))
         /\ UNCHANGED <<streamVars, sessionVars, opVars, pureVars, deadlineVars, fleetVars, reconVars>>
    \/ (\E c \in Racers : RaceChmod(c))
         /\ UNCHANGED <<streamVars, sessionVars, opVars, pureVars, deadlineVars, fleetVars, reconVars>>
    \/ (\E c \in Racers : RaceExecute(c))
         /\ UNCHANGED <<streamVars, sessionVars, opVars, pureVars, deadlineVars, fleetVars, reconVars>>
    \/ (\E c \in Racers : RaceReturn(c))
         /\ UNCHANGED <<streamVars, sessionVars, opVars, pureVars, deadlineVars, fleetVars, reconVars>>

\* The inbound direction of the duplex stream adapter: concurrent readers,
\* the peer, Close, cancellation.
SpecStream == Init /\ [][NextStream]_vars

\* Both directions, the peer silent.
SpecDuplex == Init /\ [][NextDuplex]_vars

\* The same, with the scheduler running every goroutine whose call into the
\* WebSocket library can return.
SpecDuplexFair ==
    /\ SpecDuplex
    /\ \A p \in Readers : WF_vars(ReadFetchFail(p) /\ UNCHANGED <<sessionVars, opVars, pureVars, deadlineVars, fleetVars, reconVars, raceVars>>)
    /\ WF_vars(WriteReturn /\ UNCHANGED <<sessionVars, opVars, pureVars, deadlineVars, fleetVars, reconVars, raceVars>>)

\* Blocking operations on a Ready session, with the scheduler running the
\* operation whose pending Read has failed.
SpecCancel ==
    /\ InitCancel
    /\ [][NextCancel]_vars
    /\ WF_vars(OpFail /\ UNCHANGED <<streamVars, sessionVars, pureVars, deadlineVars, fleetVars, reconVars, raceVars>>)

\* One session-layer operation, from its call to its return.
SpecSession == Init /\ [][NextSession]_vars

\* Both directions of the stream, deadlines being set.
SpecDeadline == Init /\ [][NextDeadline]_vars

\* Several sessions in one process.
SpecFleet == Init /\ [][NextFleet]_vars

\* The reconciler of one VM resource.
SpecReconcile == InitReconcile /\ [][NextReconcile]_vars

\* A created VM under repeated reconciles: Orchard answers an Observe
\* again and again, and the SSH server of a running VM comes up.
SpecCloudInit ==
    /\ InitCreated
    /\ [][NextCloudInit]_vars
    /\ WF_vars(ObserveAnswered /\ UNCHANGED <<streamVars, sessionVars, opVars,
                                              pureVars, deadlineVars, fleetVars, raceVars>>)
    /\ WF_vars(SSHUp /\ UNCHANGED <<streamVars, sessionVars, opVars, pureVars,
                                    deadlineVars, fleetVars, raceVars>>)

\* Two UploadAndRunScript calls with different scripts on one VM, in every
\* interleaving of their steps.
SpecRace == Init /\ [][NextRace]_vars

\* The functions of a value, each called once on arguments of its domain.
SpecPure == InitPure /\ [][NextPure]_vars

\* ------------------------------------------------------------------ properties

\* C1: the bytes returned by successive wsNetConn.Read calls are a prefix of
\* the inbound payloads in arrival order, and what was returned, the unread
\* remainder of the current message and the messages not yet fetched make up
\* the whole inbound stream: no byte is lost, duplicated or reordered.
C1_ReadRoundTrip ==
    /\ IsPrefix(delivered, ArrivedSeq)
    /\ delivered \o Rem \o Flatten(inbox) = ArrivedSeq

\* A message larger than the caller's buffer was read to its end over several
\* calls, the last of them served from the kept remainder.
C1_Witness ==
    /\ lastRead.hadRem
    /\ lastRead.n >= 1
    /\ arrived = MaxBytes
    /\ delivered = ArrivedSeq

C3_Returned ==
    /\ returned.done => (returned.session <=> ~returned.err.is)
    /\ returned.session =>
         /\ state \in {"Ready", "Closed"}
         /\ lastDial.r.conn
         /\ lastHandshake.ok
    /\ state = "Ready" => returned.session /\ lastDial.r.conn /\ lastHandshake.ok
    /\ state \in {"None", "Dialing", "Authenticating", "Failed"} => ~returned.session

C3_Moves ==
    {<<"None", "Dialing">>, <<"Dialing", "Authenticating">>,
     <<"Dialing", "Failed">>, <<"Authenticating", "Ready">>,
     <<"Authenticating", "Failed">>, <<"Ready", "Closed">>}

C3_Step ==
    /\ state' # state => <<state, state'>> \in C3_Moves
    /\ (returned' # returned /\ returned'.session) => state' = "Ready"

C3_SessionStateMachine == [](C3_Returned) /\ [][C3_Step]_vars

\* NewVMSession returned a session, which is Ready.
C3_Witness == returned.done /\ returned.session /\ state = "Ready"

\* C4: when the SSH handshake fails, NewVMSession closes the stream the dial
\* produced before it returns; after a failing NewVMSession no connection
\* this call opened is still open.
C4_FailedOpenClosesStream ==
    /\ (returned.done /\ ~returned.session) => conn # "open"
    /\ (returned.done /\ ~returned.session /\ lastDial.r.conn) =>
         /\ conn = "closed"
         /\ codeCloses >= 1

\* The dial succeeded and the handshake failed on the password.
C4_Witness ==
    /\ returned.done /\ ~returned.session
    /\ lastDial.r.conn
    /\ lastHandshake.auth
    /\ conn = "closed"

\* The names of the resources a Close call tried to close, in order.
CloseOrder == [i \in 1..Len(lastClose.steps) |-> lastClose.steps[i].res]

\* C5: vmSession.Close tries, in this order, the file-transfer client (if one
\* was created), the shell client and the stream, each of them whatever the
\* earlier ones returned, and returns an error exactly when a step failed.
C5_CloseAttemptsAll ==
    closeCount > 0 =>
      /\ CloseOrder = (IF sftpClient # "unset" THEN <<"sftp">> ELSE <<>>)
                      \o <<"ssh", "ws">>
      /\ lastClose.err.is <=>
           \E i \in 1..Len(lastClose.steps) : ~lastClose.steps[i].ok

\* Closing the file-transfer client failed, the two other closes were still
\* tried and went well, and Close reported an error.
C5_Witness ==
    /\ closeCount > 0
    /\ Len(lastClose.steps) = 3
    /\ ~lastClose.steps[1].ok
    /\ lastClose.steps[2].ok /\ lastClose.steps[3].ok
    /\ lastClose.err.is

\* C6: each stream is closed exactly once: after a failed handshake, and
\* after one vmSession.Close on a Ready session, exactly one Close call has
\* reached the wsNetConn, those of the SSH library included.
C6_StreamClosedExactlyOnce ==
    /\ (returned.done /\ ~returned.session /\ lastDial.r.conn) =>
         libCloses + codeCloses = 1
    /\ closeCount = 1 => libCloses + codeCloses = 1

\* C7: RunCloudInit: a failed open returns (nil, err) and executes nothing;
\* otherwise ExecuteScript runs exactly once and then Close exactly once
\* before the return, whatever ExecuteScript gave; no session stays open.
C7_RunCloudInitAtomic ==
    (call = "RunCloudInit" /\ facadeRet.done) =>
      IF ~returned.session
      THEN /\ ~facadeRet.result.has /\ facadeRet.err.is
           /\ execCount = 0 /\ closeCount = 0
           /\ events = <<>>
           /\ conn # "open"
      ELSE /\ execCount = 1 /\ closeCount = 1
           /\ events = <<"open", "exec", "close">>
           /\ state = "Closed"
           /\ sshClient = "closed" /\ conn = "closed"

\* RunCloudInit returned the error of ExecuteScript, the session closed.
C7_Witness ==
    /\ call = "RunCloudInit" /\ facadeRet.done
    /\ returned.session
    /\ facadeRet.err.is
    /\ closeCount = 1

\* C8: UploadAndRunScript opens a session, uploads the script to
\* /tmp/cloudinit-script.sh with mode 0755 and parent-directory creation,
\* executes one command line (the exports, then that path) only after the
\* upload succeeded, and closes the session exactly once on every path after
\* a successful open; a failed upload returns (nil, err) and executes nothing.
C8_UploadThenRun ==
    call = "UploadAndRunScript" =>
      /\ uploadCount > 0 /\ execCount = 0 =>
           lastUpload.opts = [RemotePath |-> "/tmp/cloudinit-script.sh",
                              Permissions |-> 493, CreateDirs |-> TRUE]
      /\ spc = "uploaded" =>
           /\ events = <<"open", "upload">>
           /\ ~lastUpload.r.err.is
           /\ \E i \in 1..Len(lastUpload.r.steps) : lastUpload.r.steps[i] = "MkdirAll"
      /\ execCount > 0 =>
           /\ SubSeq(events, 1, 3) = <<"open", "upload", "exec">>
           /\ lastExec.command.path = "/tmp/cloudinit-script.sh"
      /\ facadeRet.done =>
           IF ~returned.session
           THEN /\ events = <<>>
                /\ uploadCount = 0 /\ execCount = 0 /\ closeCount = 0
                /\ ~facadeRet.result.has /\ facadeRet.err.is
           ELSE /\ uploadCount = 1 /\ closeCount = 1
                /\ \/ /\ events = <<"open", "upload", "exec", "close">>
                      /\ execCount = 1
                   \/ /\ events = <<"open", "upload failed", "close">>
                      /\ execCount = 0
                      /\ ~facadeRet.result.has /\ facadeRet.err.is

\* The whole sequence ran: the script is on the VM with mode 0755, it was
\* executed, and the session is closed.
C8_Witness ==
    /\ call = "UploadAndRunScript" /\ facadeRet.done
    /\ events = <<"open", "upload", "exec", "close">>
    /\ remote[ScriptPath].perm = Perm0755
    /\ lastExec.ran = remote[ScriptPath].content
    /\ state = "Closed"

\* C9: ExecuteCommand and ExecuteScript return a nil error exactly when the
\* remote process ran to an exit status, zero or not, and then the result
\* holds that status and the captured output; a channel that cannot be
\* opened gives (nil, err); a failure during the run gives a non-nil error.
C9_NonZeroExitIsNoError ==
    lastExec.what # "" =>
      LET o == lastExec.o
          r == lastExec.r
      IN  /\ ~r.err.is <=> (o.open /\ o.exited)
          /\ (o.open /\ o.exited) =>
               /\ r.result.has
               /\ r.result.ExitCode = o.code
               /\ r.result.Stdout = o.stdout /\ r.result.Stderr = o.stderr
          /\ ~o.open => ~r.result.has /\ r.err.is
          /\ (o.open /\ ~o.exited) => r.err.is

\* A command that exited 42 was returned as a result, with a nil error.
C9_Witness ==
    /\ lastExec.what = "command execution failed"
    /\ lastExec.o.exited /\ lastExec.o.code = 42
    /\ ~lastExec.r.err.is
    /\ lastExec.r.result.ExitCode = 42

\* C10: a failed websocket.Dial with response status 404 gives a VMNotReady
\* error and never a ConnectionFailed one; with 503, 400, another status or
\* no response it gives a ConnectionFailed error and never a VMNotReady one;
\* the stream is nil, the error non-nil and of exactly one of the two kinds.
C10_DialClassification ==
    (lastDial.done /\ lastDial.r.dialed /\ ~lastDial.o.ok) =>
      LET kinds == lastDial.r.err.kinds \cap {"ErrVMNotReady", "ErrConnectionFailed"} IN
      /\ ~lastDial.r.conn
      /\ lastDial.r.err.is
      /\ lastDial.o.status = 404 => kinds = {"ErrVMNotReady"}
      /\ lastDial.o.status # 404 => kinds = {"ErrConnectionFailed"}
      /\ Cardinality(kinds) = 1

\* A dial answered 404 was classified VMNotReady.
C10_Witness ==
    /\ lastDial.done /\ lastDial.r.dialed
    /\ lastDial.o.status = 404
    /\ "ErrVMNotReady" \in lastDial.r.err.kinds

\* C11: a handshake error that carries the authentication-failure signature
\* ("unable to authenticate") is returned as an AuthFailed error
\* (ErrSSHAuthFailed) that is not a ConnectionFailed one; every other
\* handshake failure is returned as the generic "failed to establish SSH
\* connection" error, which is not an AuthFailed one.
C11_HandshakeClassification ==
    (handshakeAttempts > 0 /\ ~lastHandshake.ok) =>
      /\ returned.done /\ ~returned.session /\ returned.err.is
      /\ lastHandshake.auth =>
           /\ "ErrSSHAuthFailed" \in returned.err.kinds
           /\ "ErrConnectionFailed" \notin returned.err.kinds
      /\ ~lastHandshake.auth =>
           /\ returned.err.text = "failed to establish SSH connection"
           /\ "ErrSSHAuthFailed" \notin returned.err.kinds

\* The handshake failed on the password and NewVMSession returned the
\* AuthFailed error.
C11_Witness ==
    /\ handshakeAttempts > 0
    /\ lastHandshake.auth
    /\ returned.done
    /\ returned.err.kinds = {"ErrSSHAuthFailed"}

\* C12: when the context's deadline passes during a step of a session
\* operation (here the dial or the SSH handshake of NewVMSession), the error
\* returned is of the Timeout kind (ErrTimeout).
C12_TimeoutKind ==
    /\ (lastDial.done /\ lastDial.r.dialed /\ lastDial.o.cause = "deadline") =>
         "ErrTimeout" \in returned.err.kinds
    /\ (handshakeAttempts > 0 /\ lastHandshake.cause = "deadline") =>
         "ErrTimeout" \in returned.err.kinds

\* C13: wsNetConn.Close does not wait for the read mutex or for anything
\* else (it can always run, also while a Read holds the mutex or a Write is
\* in flight), and a Read waiting for the next message or a Write in flight
\* when the stream is closed returns, with an error.
C13_CloseNeverHangs ==
    /\ [](closeCalls < MaxClose => ENABLED StreamClose)
    /\ \A p \in Readers :
         (wsClosed /\ rpc[p] = "fetch")
           ~> (rpc[p] = "idle" /\ lastRead.by = p /\ lastRead.err # Nil)
    /\ (wsClosed /\ wr.pc = "writing")
         ~> (wr.pc = "idle" /\ lastWrite.err # Nil)

\* The stream is closed while r1 holds the mutex waiting for the next
\* message and a Write is in flight.
C13_Witness ==
    /\ closeCalls = 1 /\ wsClosed
    /\ mu = "r1" /\ rpc["r1"] = "fetch"
    /\ wr.pc = "writing"

\* The Read and Write calls returning in a step.
ReadReturns(p) == rpc[p] # "idle" /\ rpc'[p] = "idle"
WriteReturns == wr.pc = "writing" /\ wr'.pc = "idle"

\* C15: the stream's context is derived from the context given to the dial:
\* closing the stream cancels the stream's context and leaves the caller's
\* alone, and once the caller's context is cancelled the stream's is done,
\* so every Read and Write that returns afterwards returns an error.
C15_DerivedContext ==
    /\ [](dialCtxDone => ctxDone)
    /\ [](closeCalls > 0 => ctxDone)
    /\ [][closeCalls' # closeCalls => dialCtxDone' = dialCtxDone]_vars
    /\ [][\A p \in Readers :
            (dialCtxDone /\ ReadReturns(p)) => lastRead'.err # Nil]_vars
    /\ [][(dialCtxDone /\ WriteReturns) => lastWrite'.err # Nil]_vars

\* The caller's context was cancelled on a stream that was never closed,
\* and a Read and a Write have failed since.
C15_Witness ==
    /\ dialCtxDone /\ closeCalls = 0 /\ ~wsClosed
    /\ lastRead.by # Nil /\ lastRead.err # Nil
    /\ lastWrite.len > 0 /\ lastWrite.err # Nil

\* C16: at most one Read call is inside the critical section, and it is the
\* holder of the mutex; every Read returns, while it holds the mutex, the
\* bytes that follow those returned before it, so each inbound byte goes to
\* exactly one call and the bytes, in lock order, are the inbound stream.
C16_SingleReader ==
    /\ [](Cardinality({p \in Readers : rpc[p] # "idle"}) <= 1)
    /\ [](\A p \in Readers : rpc[p] # "idle" <=> mu = p)
    /\ [](IsPrefix(delivered, ArrivedSeq))
    /\ [][\A p \in Readers :
            ReadReturns(p) =>
              /\ mu = p /\ lastRead'.by = p
              /\ delivered' = delivered \o lastRead'.bytes
              /\ lastRead'.bytes = SubSeq(ArrivedSeq, Len(delivered) + 1,
                                          Len(delivered) + lastRead'.n)]_vars
    /\ [][delivered' # delivered => \E p \in Readers : ReadReturns(p)]_vars

\* r1 read the beginning of a message, and r2 now holds the mutex with the
\* rest of that message before it.
C16_Witness ==
    /\ lastRead.by = "r1" /\ lastRead.n >= 1
    /\ mu = "r2" /\ rpc["r2"] = "locked"
    /\ Rem # <<>>

\* C17: a Write call returns (len(b), nil) after sending b as exactly one
\* message, or (0, err) with no message recorded; no count lies strictly
\* between 0 and len(b), and no other step changes the outbound messages.
C17_WriteAllOrError ==
    /\ [](/\ lastWrite.n \in {0, lastWrite.len}
          /\ lastWrite.err = Nil <=> lastWrite.n = lastWrite.len)
    /\ [][IF WriteReturns
          THEN IF lastWrite'.err = Nil
               THEN /\ outbox' = Append(outbox, wr.len)
                    /\ lastWrite'.n = wr.len
               ELSE /\ outbox' = outbox
                    /\ lastWrite'.n = 0
          ELSE outbox' = outbox]_vars

\* Two Write calls of different lengths went out as two messages of those
\* lengths.
C17_Witness ==
    /\ Len(outbox) = 2
    /\ outbox[1] # outbox[2]
    /\ lastWrite.err = Nil
    /\ lastWrite.n = outbox[2]

\* C14: whatever context the caller passes to ExecuteCommand, ExecuteScript,
\* UploadFile or UploadBytes, cancelling it while the operation waits on the
\* network unblocks the pending read on the stream, so the operation does
\* not stay blocked: it returns (with an error, unless the VM answered
\* first).
C14_CancelUnblocks ==
    (op.pc = "blocked" /\ ContextDone(op.ctx)) ~> (op.pc = "returned")

\* C18: a session has no SFTP client before its first upload; an upload that
\* finds the field unset calls sftp.NewClient first, and sets the field only
\* when that succeeded (a failure leaves it unset, so the next upload tries
\* again); an upload that finds it set makes no client and leaves the field
\* alone; so at most one client is made per session.
C18_LazySFTP ==
    /\ [](uploadCount = 0 => sftpClient = "unset")
    /\ [](sftpCreated <= 1)
    /\ [](sftpClient = "unset" <=> sftpCreated = 0)
    /\ [][IF uploadCount' # uploadCount
          THEN LET steps == lastUpload'.r.steps
                   made == {i \in 1..Len(steps) : steps[i] = "sftp.NewClient"}
               IN  IF sftpClient = "unset"
                   THEN /\ made = {1}
                        /\ IF lastUpload'.failAt = "sftp"
                           THEN /\ sftpClient' = "unset"
                                /\ sftpCreated' = sftpCreated
                                /\ steps = <<"sftp.NewClient">>
                           ELSE /\ sftpClient' = "open"
                                /\ sftpCreated' = sftpCreated + 1
                   ELSE /\ made = {}
                        /\ sftpClient' = sftpClient
                        /\ sftpCreated' = sftpCreated
          ELSE sftpCreated' = sftpCreated]_vars

\* The second upload on a session went through the client the first one
\* made.
C18_Witness ==
    /\ uploadCount = 2
    /\ sftpCreated = 1
    /\ ~lastUpload.r.err.is
    /\ Head(lastUpload.r.steps) # "sftp.NewClient"

\* C19: after ensureSFTP an upload makes, in this order, MkdirAll (only with
\* CreateDirs), Create, the copy of the content, Chmod (only with
\* Permissions # 0); the first failing call is the last call made; a
\* successful upload made all of them, and the remote file then holds the
\* uploaded bytes and, when a mode was asked for, that mode.
C19_UploadStepOrder ==
    lastUpload.opts.RemotePath # "" =>
      LET u == lastUpload
          steps == u.r.steps
          body == IF steps # <<>> /\ Head(steps) = "sftp.NewClient"
                  THEN Tail(steps) ELSE steps
          full == (IF u.opts.CreateDirs THEN <<"MkdirAll">> ELSE <<>>)
                  \o <<"Create", "Copy">>
                  \o (IF u.opts.Permissions # 0 THEN <<"Chmod">> ELSE <<>>)
          f == remote[u.opts.RemotePath]
      IN  /\ IsPrefix(body, full)
          /\ u.opts.Permissions = 0 =>
               \A i \in 1..Len(steps) : steps[i] # "Chmod"
          /\ u.r.err.is <=> u.failAt # "none"
          /\ u.r.err.is =>
               /\ steps # <<>>
               /\ steps[Len(steps)] = StepOf(u.failAt)
          /\ ~u.r.err.is =>
               /\ body = full
               /\ f.exists /\ f.content = u.data
               /\ u.opts.Permissions # 0 => f.perm = u.opts.Permissions

\* An upload with CreateDirs and mode 0644 made all five calls, and the file
\* is there with its content and mode.
C19_Witness ==
    /\ lastUpload.r.steps
         = <<"sftp.NewClient", "MkdirAll", "Create", "Copy", "Chmod">>
    /\ ~lastUpload.r.err.is
    /\ lastUpload.opts.Permissions = 420
    /\ remote[lastUpload.opts.RemotePath]
         = [exists |-> TRUE, content |-> "s1", perm |-> 420]

\* C20: every error UploadFile returns is of the TransferFailed kind
\* (ErrSFTPFailed) and carries the remote path and the underlying cause.
C20_UploadErrorCarriesPathAndCause ==
    lastUpload.r.err.is =>
      /\ "ErrSFTPFailed" \in lastUpload.r.err.kinds
      /\ {"path", "cause"} \subseteq lastUpload.r.carries

\* C21: closing a session that never made a file-transfer client tries no
\* SFTP close and reports no file-transfer error: it closes the shell client
\* and the stream, and returns nil when both of those closes returned nil.
C21_CloseWithoutSFTP ==
    (closeCount > 0 /\ sftpCreated = 0) =>
      /\ CloseOrder = <<"ssh", "ws">>
      /\ sshClient = "closed" /\ conn = "closed"
      /\ (lastClose.steps[1].ok /\ lastClose.steps[2].ok) => ~lastClose.err.is
      /\ lastClose.err.is => (~lastClose.steps[1].ok \/ ~lastClose.steps[2].ok)

\* A session that only ran a command was closed, and Close returned nil.
C21_Witness ==
    /\ closeCount = 1 /\ sftpCreated = 0 /\ uploadCount = 0
    /\ execCount > 0
    /\ Len(lastClose.steps) = 2
    /\ ~lastClose.err.is

\* C22: what RunCloudInit and UploadAndRunScript return after a successful
\* open is the pair of the execute step (or, when the upload failed, nil and
\* the upload's error wrapped), whatever the deferred Close returned.
C22_TeardownKeepsResult ==
    (facadeRet.done /\ returned.session) =>
      IF execCount = 1
      THEN /\ facadeRet.result = lastExec.r.result
           /\ facadeRet.err = lastExec.r.err
      ELSE /\ call = "UploadAndRunScript"
           /\ ~facadeRet.result.has
           /\ facadeRet.err.is
           /\ facadeRet.err.kinds = lastUpload.r.err.kinds
           /\ facadeRet.err.text = "failed to upload script"

\* All three closes of the teardown failed, and the caller still got the
\* result of the script with a nil error.
C22_Witness ==
    /\ facadeRet.done
    /\ Len(lastClose.steps) = 3
    /\ \A i \in 1..3 : ~lastClose.steps[i].ok
    /\ lastClose.err.is
    /\ facadeRet.result.has /\ ~facadeRet.err.is

\* C23: one NewVMSession call (alone or inside RunCloudInit or
\* UploadAndRunScript) dials at most once and runs at most one handshake; a
\* failed dial is returned at once, with no handshake and no second dial,
\* and a failed handshake is returned at once.
C23_NoInternalRetry ==
    /\ dialAttempts <= 1 /\ handshakeAttempts <= 1
    /\ (lastDial.done /\ ~lastDial.r.conn) =>
         /\ handshakeAttempts = 0
         /\ spc = "done"
         /\ returned.done /\ returned.err = lastDial.r.err
    /\ (handshakeAttempts > 0 /\ ~lastHandshake.ok) =>
         /\ spc = "done"
         /\ returned.done /\ returned.err.is
    /\ (call \in Facades /\ returned.done /\ ~returned.session) =>
         /\ facadeRet.done
         /\ facadeRet.err = returned.err

\* A facade call whose single dial was answered 404 returned the VMNotReady
\* error.
C23_Witness ==
    /\ call \in Facades
    /\ dialAttempts = 1 /\ handshakeAttempts = 0
    /\ ~lastDial.r.conn
    /\ facadeRet.done
    /\ "ErrVMNotReady" \in facadeRet.err.kinds

\* C24: an ExecuteCommand, ExecuteScript, UploadFile or UploadBytes call on
\* a Ready session, whatever it returns, leaves the session Ready, the shell
\* client and the stream as they were, and the SFTP field either as it was
\* or changed from unset to set; only Close moves a session out of Ready.
C24_OperationsKeepReady ==
    /\ [][(state = "Ready"
            /\ (execCount' # execCount \/ uploadCount' # uploadCount)) =>
           /\ state' = "Ready"
           /\ sshClient' = sshClient /\ conn' = conn
           /\ libCloses' = libCloses /\ codeCloses' = codeCloses
           /\ \/ sftpClient' = sftpClient
              \/ sftpClient = "unset" /\ sftpClient' = "open"]_vars
    /\ [][(state = "Ready" /\ state' # "Ready") =>
           /\ state' = "Closed"
           /\ closeCount' = closeCount + 1]_vars

\* After an upload and a command that failed, the session is still Ready
\* with its shell client and its stream open.
C24_Witness ==
    /\ ops = 2 /\ uploadCount = 1 /\ execCount = 1
    /\ lastExec.r.err.is
    /\ state = "Ready" /\ sshClient = "open" /\ conn = "open"

\* C27: the configuration NewVMSession works with is its own copy with the
\* defaults applied: SSHPort, WaitSeconds and Timeout are never zero in it,
\* the dial URL carries port 22 for a caller port of 0 and wait=30 for a
\* caller wait of 0 (and the caller's values otherwise), and the caller's
\* TunnelConfig is never changed by the call.
C27_DefaultsOnOwnCopy ==
    /\ [](call # "none" =>
           /\ config.SSHPort # 0 /\ config.WaitSeconds # 0 /\ config.Timeout # 0
           /\ \A f \in {"SSHPort", "WaitSeconds", "Timeout"} :
                callerCfg[f] # 0 => config[f] = callerCfg[f])
    /\ []((lastDial.done /\ lastDial.r.dialed) =>
           /\ lastDial.r.port = (IF callerCfg.SSHPort = 0 THEN 22
                                 ELSE callerCfg.SSHPort)
           /\ lastDial.r.wait = (IF callerCfg.WaitSeconds = 0 THEN 30
                                 ELSE callerCfg.WaitSeconds))
    /\ [][call # "none" => callerCfg' = callerCfg]_vars

\* A caller config with nothing set was dialled with port=22 and wait=30,
\* and the caller's config still has its zeros after the call returned.
C27_Witness ==
    /\ lastDial.done /\ lastDial.r.dialed
    /\ lastDial.r.port = 22 /\ lastDial.r.wait = 30
    /\ callerCfg.SSHPort = 0 /\ callerCfg.WaitSeconds = 0 /\ callerCfg.Timeout = 0
    /\ returned.done

\* POSIX shell quoting: the value of the word at the head of `w`, read in
\* mode "n" (unquoted), "s" (inside single quotes) or "d" (inside double
\* quotes) after `acc`, up to the unquoted newline or semicolon that ends
\* the statement. Not one word with one literal value (an unquoted blank,
\* an expansion, an open quote at the end of the text): ok is FALSE.
ShellBad == [ok |-> FALSE, val |-> <<>>, rest |-> <<>>, end |-> ""]

RECURSIVE ShellWord(_, _, _)
ShellWord(w, mode, acc) ==
    IF w = <<>>
    THEN IF mode = "n" THEN [ok |-> TRUE, val |-> acc, rest |-> <<>>, end |-> ""]
         ELSE ShellBad
    ELSE
    LET c == Head(w)
        t == Tail(w)
    IN
    CASE mode = "s" ->
           IF c = "'" THEN ShellWord(t, "n", acc)
           ELSE ShellWord(t, "s", Append(acc, c))
      [] mode = "d" ->
           IF c = "\"" THEN ShellWord(t, "n", acc)
           ELSE IF c = "$" THEN ShellBad
           ELSE IF c = "\\"
           THEN IF t = <<>> THEN ShellBad
                ELSE IF Head(t) \in {"$", "\"", "\\"}
                THEN ShellWord(Tail(t), "d", Append(acc, Head(t)))
                ELSE IF Head(t) = "\n" THEN ShellWord(Tail(t), "d", acc)
                ELSE ShellWord(t, "d", Append(acc, c))
           ELSE ShellWord(t, "d", Append(acc, c))
      [] OTHER ->
           IF c = "'" THEN ShellWord(t, "s", acc)
           ELSE IF c = "\"" THEN ShellWord(t, "d", acc)
           ELSE IF c \in {"\n", ";"}
           THEN [ok |-> TRUE, val |-> acc, rest |-> t, end |-> c]
           ELSE IF c \in {" ", "$"} THEN ShellBad
           ELSE IF c = "\\"
           THEN IF t = <<>> THEN ShellBad
                ELSE IF Head(t) = "\n" THEN ShellWord(Tail(t), "n", acc)
                ELSE ShellWord(Tail(t), "n", Append(acc, Head(t)))
           ELSE ShellWord(t, "n", Append(acc, c))

\* The export statements at the head of `text`, each ended by `end`, as the
\* shell reads them: the names with the values assigned, in order, and the
\* text after the last of them.
RECURSIVE ShellExports(_, _, _)
ShellExports(text, end, acc) ==
    IF Len(text) < 3 \/ text[1] # "export "
    THEN [ok |-> TRUE, exports |-> acc, rest |-> text]
    ELSE IF text[3] # "=" THEN [ok |-> FALSE, exports |-> acc, rest |-> text]
    ELSE
    LET word == ShellWord(SubSeq(text, 4, Len(text)), "n", <<>>)
        after == IF end = <<";", " ">> /\ word.rest # <<>> /\ Head(word.rest) = " "
                 THEN Tail(word.rest) ELSE word.rest
    IN
    IF ~word.ok \/ word.end # end[1] \/ (end = <<";", " ">> /\ after = word.rest)
    THEN [ok |-> FALSE, exports |-> acc, rest |-> text]
    ELSE ShellExports(after, end, Append(acc, [name |-> text[2], val |-> word.val]))

\* The exports assign every entry of env, once each, its own value.
ExportsAre(exports, env) ==
    /\ Len(exports) = Cardinality(DOMAIN env)
    /\ {exports[i].name : i \in 1..Len(exports)} = DOMAIN env
    /\ \A i \in 1..Len(exports) : exports[i].val = env[exports[i].name]

\* C25: each environment value is written as a single-quoted shell word
\* that evaluates, under POSIX quoting, to exactly the value, whatever
\* quotes and special characters it holds; the script ExecuteScript gives
\* the shell is the shebang line, "set -e", exactly one export statement
\* per entry of env, then the caller's script as it is; the command line of
\* UploadAndRunScript is one export statement per entry, then the script's
\* path.
C25_EnvEscapeRoundTrip ==
    /\ pureOut.fn = "ExecuteScript" =>
         /\ Len(pureOut.val) >= 5
         /\ SubSeq(pureOut.val, 1, 4) = <<"#!/bin/bash", "\n", "set -e", "\n">>
         /\ LET e == ShellExports(SubSeq(pureOut.val, 5, Len(pureOut.val)),
                                  <<"\n">>, <<>>)
            IN /\ e.ok
               /\ ExportsAre(e.exports, pureIn.x.env)
               /\ e.rest = <<pureIn.x.script>>
    /\ pureOut.fn = "UploadAndRunScript" =>
         LET e == ShellExports(pureOut.val, <<";", " ">>, <<>>)
         IN /\ e.ok
            /\ ExportsAre(e.exports, pureIn.x.env)
            /\ e.rest = <<ScriptPath>>

\* A script was built for a value made of a single quote, a double quote
\* and a dollar sign, and another for two entries, one of them a quote.
C25_Witness ==
    /\ pureOut.fn = "ExecuteScript"
    /\ DOMAIN pureIn.x.env = {"A"}
    /\ pureIn.x.env["A"] = <<"'", "\"", "$">>
    /\ ExportsAre(ShellExports(SubSeq(pureOut.val, 5, Len(pureOut.val)),
                               <<"\n">>, <<>>).exports, pureIn.x.env)

\* C26: SetDefaults leaves a non-zero SSHPort, WaitSeconds or Timeout as it
\* was, sets a zero one to 22, 30 and 30 seconds, changes no other field,
\* and applied to its own result changes nothing.
C26_SetDefaults ==
    pureOut.fn = "SetDefaults" =>
      LET c == pureIn.x
          d == pureOut.val.once
      IN
      /\ d.SSHPort = (IF c.SSHPort # 0 THEN c.SSHPort ELSE 22)
      /\ d.WaitSeconds = (IF c.WaitSeconds # 0 THEN c.WaitSeconds ELSE 30)
      /\ d.Timeout = (IF c.Timeout # 0 THEN c.Timeout ELSE 30)
      /\ DOMAIN d = DOMAIN c
      /\ \A f \in DOMAIN c \ {"SSHPort", "WaitSeconds", "Timeout"} : d[f] = c[f]
      /\ pureOut.val.twice = d

\* SetDefaults ran on a config with an explicit port and no wait budget or
\* timeout: the port was kept and the two others defaulted.
C26_Witness ==
    /\ pureOut.fn = "SetDefaults"
    /\ pureIn.x.SSHPort = 2222 /\ pureIn.x.WaitSeconds = 0 /\ pureIn.x.Timeout = 0
    /\ pureOut.val.once.SSHPort = 2222
    /\ pureOut.val.once.WaitSeconds = 30
    /\ pureOut.val.once.Timeout = 30

\* The name a percent-encoded path segment stands for ("%20", "%2F" and
\* "%25" decoded).
RECURSIVE PathUnescape(_)
PathUnescape(seg) ==
    IF seg = <<>> THEN <<>>
    ELSE IF Head(seg) = "%" /\ Len(seg) >= 3
    THEN (CASE SubSeq(seg, 2, 3) = <<"2", "0">> -> <<" ">>
            [] SubSeq(seg, 2, 3) = <<"2", "F">> -> <<"/">>
            [] SubSeq(seg, 2, 3) = <<"2", "5">> -> <<"%">>
            [] OTHER -> <<"?">>)
         \o PathUnescape(SubSeq(seg, 4, Len(seg)))
    ELSE <<Head(seg)>> \o PathUnescape(Tail(seg))

\* C28: for a config whose base URL parses, buildWebSocketURL returns the
\* URL with scheme wss for an https base and ws for an http base, the
\* base's host, the path made of the base's path, /vms/, the VM name
\* percent-encoded as one path segment (no slash and no space in it) and
\* /port-forward, and the query port=<SSHPort> followed by wait=<WaitSeconds>
\* exactly when WaitSeconds > 0; the result is the same whatever the token
\* and the SSH credentials; for a base URL that does not parse it returns
\* an error and no URL.
C28_BuildWebSocketURL ==
    pureOut.fn = "buildWebSocketURL" =>
      LET c == pureIn.x
          r == pureOut.val
          u == r.url
          n == Len(u.path)
          seg == SubSeq(u.path, 3, n - 1)
      IN
      IF ~c.OrchardBaseURL.parses
      THEN r.err.is /\ u = NoURL
      ELSE /\ ~r.err.is
           /\ c.OrchardBaseURL.scheme = "https" => u.scheme = "wss"
           /\ c.OrchardBaseURL.scheme = "http" => u.scheme = "ws"
           /\ u.host = c.OrchardBaseURL.host
           /\ n >= 3
           /\ u.path[1] = c.OrchardBaseURL.path
           /\ u.path[2] = "/vms/"
           /\ u.path[n] = "/port-forward"
           /\ \A i \in 1..Len(seg) : seg[i] \notin {"/", " "}
           /\ PathUnescape(seg) = c.VMName
           /\ u.query = <<[k |-> "port", v |-> c.SSHPort]>>
                        \o (IF c.WaitSeconds > 0
                            THEN <<[k |-> "wait", v |-> c.WaitSeconds]>>
                            ELSE <<>>)
           /\ r = BuildWebSocketURL([c EXCEPT !.BearerToken = "token",
                                              !.SSHUsername = "admin",
                                              !.SSHPassword = "admin"])

\* The URL was built for a VM name with a space and a slash over an https
\* base with no wait budget, under another token and other credentials than
\* those of the comparison: wss, three characters per encoded character, no
\* wait parameter.
C28_Witness ==
    /\ pureOut.fn = "buildWebSocketURL"
    /\ pureIn.x.VMName = <<" ", "/">>
    /\ pureIn.x.OrchardBaseURL.scheme = "https"
    /\ pureIn.x.WaitSeconds = 0
    /\ pureIn.x.BearerToken = "other" /\ pureIn.x.SSHPassword = "secret"
    /\ pureOut.val.url.scheme = "wss"
    /\ Len(pureOut.val.url.path) = 9
    /\ Len(pureOut.val.url.query) = 1

\* C29: SetDeadline, SetReadDeadline and SetWriteDeadline return nil and
\* leave the stream as it was (context, cursor, transport and everything
\* else); with a deadline in the past or not, a Write on a stream neither
\* closed nor cancelled sends its whole buffer, and a Read or Write that is
\* waiting returns an error only once the context is cancelled or the
\* stream closed.
C29_DeadlinesAreNoOps ==
    /\ [](deadlines.calls > 0 => deadlines.ret = Nil)
    /\ [][deadlines'.calls # deadlines.calls => streamVars' = streamVars]_vars
    /\ [][\A p \in Readers :
            (rpc[p] = "fetch" /\ ReadReturns(p)) => (ctxDone \/ wsClosed)]_vars
    /\ [][WriteReturns =>
            IF ctxDone \/ wsClosed THEN lastWrite'.err # Nil
            ELSE lastWrite'.err = Nil /\ lastWrite'.n = wr.len]_vars

\* The read and the write deadline lie in the past, set by two calls that
\* returned nil; a Write has sent its buffer, another is in flight, and a
\* Read is waiting for a message, the stream neither cancelled nor closed.
C29_Witness ==
    /\ deadlines.calls = 2
    /\ deadlines.past = {"read", "write"}
    /\ deadlines.ret = Nil
    /\ lastWrite.err = Nil /\ lastWrite.n >= 1
    /\ wr.pc = "writing"
    /\ \E p \in Readers : rpc[p] = "fetch"
    /\ ~ctxDone /\ ~wsClosed

\* C30: an operation on one session (open, execute, upload, failing or not,
\* Close) leaves every field of every other session as it was: its stream,
\* its context, its read cursor, its SSH and SFTP clients; Close on one
\* session neither closes another session's stream nor moves it out of
\* Ready.
C30_SessionsIndependent ==
    /\ [][\A j \in SessionIds : j # actor'.on => fleet'[j] = fleet[j]]_vars
    /\ [][\A j \in SessionIds :
            (actor'.op = "Close" /\ actor'.on # j /\ fleet[j].state = "Ready")
              => fleet'[j].state = "Ready" /\ fleet'[j].ws = "open"]_vars

\* Session A was closed last, with its SFTP client, while session B, used
\* before, is Ready on its open stream with its SFTP client and a partly
\* read message.
C30_Witness ==
    /\ actor = [on |-> "A", op |-> "Close"]
    /\ fleet["A"].state = "Closed" /\ fleet["A"].ws = "closed"
    /\ fleet["A"].sftpClient = "closed"
    /\ fleet["B"].state = "Ready" /\ fleet["B"].ws = "open"
    /\ ~fleet["B"].ctxDone
    /\ fleet["B"].sshClient = "open" /\ fleet["B"].sftpClient = "open"
    /\ fleet["B"].reader = "partial"

\* C36: a Read call returns an error, io.EOF included, only when the
\* transport's read failed, that is when the stream is closed or its
\* context cancelled; the end of an inbound message, and an inbound
\* message of no bytes, is never reported as an error.
C36_BoundaryIsNotEOF ==
    lastRead.err # Nil => (wsClosed \/ ctxDone)

\* The VM runs with an IP address, which the resource knows.
VMUp ==
    /\ orchard.exists /\ orchard.status = "running" /\ orchard.ip
    /\ cr.ExternalName /\ cr.IPAddress

Terminal == {"completed", "failed"}

\* C31: when UploadAndRunScript returns no error, executeCloudInit records
\* CloudInitStatus completed and the condition Available for exit code 0,
\* and for a non-zero exit code CloudInitStatus failed, a message made of
\* the exit code and stderr, and the condition Unavailable; in both cases
\* it returns nil, so Observe returns no error.
C31_ExitCodeToStatus ==
    (lastObserve.ssh.uploaded /\ ~lastObserve.run.err) =>
      /\ lastObserve.err = ""
      /\ IF lastObserve.run.ExitCode = 0
         THEN /\ cr.CloudInitStatus = "completed"
              /\ cr.Ready.reason = "Available"
         ELSE /\ cr.CloudInitStatus = "failed"
              /\ cr.CloudInitMessage.fmt = "exit code %d: %s"
              /\ cr.CloudInitMessage.args = <<lastObserve.run.ExitCode, "Stderr">>
              /\ cr.Ready.reason = "Unavailable"
              /\ cr.Ready.msg.fmt = "exit code %d: %s"
              /\ cr.Ready.msg.args = <<lastObserve.run.ExitCode, "Stderr">>

\* The script exited 42: the status is failed, and Observe returned no
\* error.
C31_Witness ==
    /\ lastObserve.ssh.uploaded /\ ~lastObserve.run.err
    /\ lastObserve.run.ExitCode = 42
    /\ cr.CloudInitStatus = "failed"
    /\ cr.Ready.reason = "Unavailable"
    /\ lastObserve.err = ""

\* C32: when UploadAndRunScript returns an error, the failure is taken as
\* transient: while the VM stays up, a later reconcile calls
\* UploadAndRunScript again.
C32_TransientIsRetried ==
    (lastObserve.ssh.uploaded /\ lastObserve.run.err /\ attempts = 1 /\ VMUp)
      ~> (attempts >= 2 \/ ~VMUp)

\* C33: when the probe session cannot be opened, or the probe command
\* fails or exits non-zero, CloudInitStatus is set to pending with the
\* message "waiting for SSH", the script is neither uploaded nor run in
\* that Observe, and Observe returns an error; a probe session that was
\* opened is closed.
C33_ProbeNotReady ==
    /\ (lastObserve.ssh.probed
        /\ (~lastObserve.probe.opened \/ lastObserve.probe.cmdErr
            \/ lastObserve.probe.exit # 0)) =>
         /\ cr.CloudInitStatus = "pending"
         /\ cr.CloudInitMessage.fmt = "waiting for SSH"
         /\ ~lastObserve.ssh.uploaded /\ ~lastObserve.ssh.exited
         /\ lastObserve.err # ""
    /\ lastObserve.ssh.opened => lastObserve.ssh.closed

\* The probe session opened and "ls -al" exited 1: the session was closed,
\* the status is pending and Observe returned an error.
C33_Witness ==
    /\ lastObserve.ssh.probed
    /\ lastObserve.probe.opened /\ lastObserve.probe.exit = 1
    /\ lastObserve.ssh.closed
    /\ cr.CloudInitStatus = "pending"
    /\ lastObserve.err = "cannot execute cloud-init script"

\* A message is its text when that has at most 1024 characters, and else
\* the first 1021 characters of it followed by "...".
Bounded(m) ==
    /\ MessageLen(m) <= 1024
    /\ IF m.orig <= 1024 THEN m.kept = m.orig /\ ~m.dots
       ELSE m.kept = 1021 /\ m.dots

\* C34: the message of the Ready condition and the CloudInitMessage status
\* field have at most 1024 characters each: a text of at most 1024
\* characters is recorded as it is, a longer one as its first 1021
\* characters followed by "...".
C34_MessagesBounded ==
    /\ Bounded(cr.Ready.msg)
    /\ Bounded(cr.CloudInitMessage)

\* C35: Delete on a resource with no external name calls no API and
\* returns nil; Delete returns nil when the API answers 200, 204 or 404
\* and an error for any other answer; so a Delete repeated after a Delete
\* that removed the VM, answered 404, returns nil too.
C35_DeleteIdempotent ==
    [][deletes' # deletes =>
         /\ lastDelete'.api = cr.ExternalName
         /\ ~lastDelete'.api => (lastDelete'.err = "" /\ orchard' = orchard)
         /\ lastDelete'.api =>
              (lastDelete'.err = "" <=> lastDelete'.code \in {200, 204, 404})
         /\ (lastDelete.api /\ lastDelete.code \in {200, 204} /\ ~orchard.exists
             /\ lastDelete'.code = 404) => lastDelete'.err = ""]_vars

\* A Delete answered 200 or 204 was followed by a Delete answered 404,
\* which returned nil.
C35_Witness ==
    /\ lastDelete.api /\ lastDelete.prev \in {200, 204}
    /\ lastDelete.code = 404
    /\ lastDelete.err = ""
    /\ ~orchard.exists

\* C37: an Observe sets the Ready condition to Available only when Orchard
\* reports the VM running, the resource has an IP address, and either
\* there is no startup script or CloudInitStatus is completed.
C37_AvailableOnlyWhenProvisioned ==
    (\E i \in 1..Len(lastObserve.conds) : lastObserve.conds[i] = "Available") =>
      /\ lastObserve.answer.code = 200
      /\ lastObserve.answer.status = "running"
      /\ cr.Status = "running"
      /\ cr.IPAddress
      /\ cr.Script = "" \/ cr.CloudInitStatus = "completed"

\* The Observe that ran the startup script to exit code 0 set Creating and
\* then Available.
C37_Witness ==
    /\ lastObserve.conds = <<"Creating", "Available">>
    /\ cr.Script # ""
    /\ lastObserve.ssh.exited /\ lastObserve.run.ExitCode = 0
    /\ cr.CloudInitStatus = "completed"
    /\ cr.Ready.reason = "Available"

\* C38: once CloudInitStatus is completed or failed, it and its message
\* stay as they are, and no Observe probes SSH, uploads or runs the script;
\* the script runs to an exit status at most once for a resource.
C38_CloudInitTerminal ==
    /\ [][cr.CloudInitStatus \in Terminal =>
            /\ cr'.CloudInitStatus = cr.CloudInitStatus
            /\ cr'.CloudInitMessage = cr.CloudInitMessage
            /\ attempts' = attempts /\ runs' = runs
            /\ lastObserve' # lastObserve => lastObserve'.ssh = NoSSH]_vars
    /\ [](runs <= 1)

\* The script failed, and a later Observe of the running VM found the
\* status failed: it used no SSH and set Unavailable.
C38_Witness ==
    /\ cr.CloudInitStatus = "failed"
    /\ runs = 1 /\ attempts = 1
    /\ lastObserve.called /\ lastObserve.ssh = NoSSH
    /\ lastObserve.conds = <<"Creating", "Unavailable">>

\* C39: executeCloudInit never leaves CloudInitStatus at running; and for
\* a resource with a startup script whose status is empty or pending, when
\* the VM stays running with an IP address, Observe is repeated and the
\* SSH server comes up, the status becomes completed or failed.
C39_CloudInitProgress ==
    /\ [](cr.CloudInitStatus # "running")
    /\ (cr.Script # "" /\ cr.CloudInitStatus \in {"", "pending"} /\ VMUp)
         ~> (cr.CloudInitStatus \in Terminal \/ ~VMUp)

\* The VM is up, its SSH server is not, and the Observe that probed it
\* left the status pending.
C39_Witness ==
    /\ VMUp /\ ~orchard.ssh
    /\ cr.Script # ""
    /\ lastObserve.ssh.probed
    /\ cr.CloudInitStatus = "pending"

\* C40: under every interleaving of two UploadAndRunScript calls given
\* different scripts for one VM, the command of each call runs the script
\* text that call uploaded.
C40_RunsOwnScript ==
    \A c \in Racers :
      racers[c].ran # NoScript => racers[c].ran = racers[c].script

====
